---- MODULE Spec2Model ----
(***************************************************************************)
(* A model of the file-inspector parsers: the shared byte cursor           *)
(* (BufferParser) and the PNG, GIF, BMP, ZIP, EXIF and ICC readers built   *)
(* on it.  A buffer is a sequence of bytes 0..255; offset i of the source  *)
(* is element i+1 of the sequence.  A 32-bit quantity is kept as its two   *)
(* 16-bit halves [hi, lo] (value hi * 65536 + lo), so that values of       *)
(* 2^31 and above, and signed values, are represented exactly.             *)
(***************************************************************************)
EXTENDS Integers, Sequences, FiniteSets, TLC

VARIABLES
    format,        \* which parser was constructed over the buffer
    buffer,        \* the input bytes (BufferParser.buffer)
    littleEndian,  \* BufferParser.littleEndian
    index,         \* BufferParser.index
    pc,            \* position of the running parse
    result,        \* the record the parse has built so far
    err,           \* kind of the exception thrown, "none" while none was
    calls,         \* the method calls made so far that a claim observes
    logical        \* what the input was encoded from, where that matters

vars == <<format, buffer, littleEndian, index, pc, result, err, calls, logical>>

(***************************************************************************)
(* Bytes, 32-bit numbers, spans                                            *)
(***************************************************************************)

\* peek()'s null; no byte has this value
Null == 0 - 1

\* An offset beyond every buffer: 32-bit values from 2^30 up are all past the
\* end of any input here, and are clamped to this when used as an offset.
Far == 16384 * 65536

Num(hi, lo) == [hi |-> hi, lo |-> lo]

\* the JS number n, -2^31 <= n < 2^31, as a Num
NumOf(n) == Num(n \div 65536, n % 65536)

\* a 32-bit value used as an offset or a length
IndexOf(n) == IF n.hi >= 16384 THEN Far ELSE n.hi * 65536 + n.lo

NumIsZero(n) == n.hi = 0 /\ n.lo = 0

Span(start, end) == [start |-> start, end |-> end]

ByteAt(buf, i) == buf[i + 1]

\* DataView's bounds check for a read of n bytes at offset i
InBounds(buf, i, n) == i >= 0 /\ i + n <= Len(buf)

Ok(val, idx) == [err |-> "none", val |-> val, index |-> idx]

Thrown(kind, idx) == [err |-> kind, val |-> Null, index |-> idx]

\* sequencing: an exception thrown by r propagates, otherwise F goes on from r
Bind(r, F(_)) == IF r.err # "none" THEN Thrown(r.err, r.index) ELSE F(r)

\* bytes [from, to) of buf, clamped to the buffer as ArrayBuffer.slice does
Slice(buf, from, to) ==
    LET lo == IF from > Len(buf) THEN Len(buf) ELSE from
        hi == IF to > Len(buf) THEN Len(buf) ELSE to
    IN  IF hi <= lo THEN <<>> ELSE SubSeq(buf, lo + 1, hi)

(***************************************************************************)
(* DataView reads                                                          *)
(***************************************************************************)

getUint16(buf, i, le) ==
    IF le THEN ByteAt(buf, i + 1) * 256 + ByteAt(buf, i)
          ELSE ByteAt(buf, i) * 256 + ByteAt(buf, i + 1)

getUint32(buf, i, le) ==
    IF le THEN Num(getUint16(buf, i + 2, le), getUint16(buf, i, le))
          ELSE Num(getUint16(buf, i, le), getUint16(buf, i + 2, le))

getInt32(buf, i, le) ==
    LET u == getUint32(buf, i, le)
    IN  IF u.hi >= 32768 THEN Num(u.hi - 65536, u.lo) ELSE u

(***************************************************************************)
(* BufferParser                                                            *)
(***************************************************************************)

atEnd(buf, idx) == Len(buf) = idx

next(buf, idx) ==
    IF InBounds(buf, idx, 1) THEN Ok(ByteAt(buf, idx), idx + 1)
    ELSE Thrown("RangeError", idx)

peek(buf, idx) ==
    IF idx > Len(buf) THEN Ok(Null, idx)
    ELSE IF InBounds(buf, idx, 1) THEN Ok(ByteAt(buf, idx), idx)
    ELSE Thrown("RangeError", idx)

readU16(buf, idx, le) ==
    IF InBounds(buf, idx, 2) THEN Ok(getUint16(buf, idx, le), idx + 2)
    ELSE Thrown("RangeError", idx)

readU32(buf, idx, le) ==
    IF InBounds(buf, idx, 4) THEN Ok(getUint32(buf, idx, le), idx + 4)
    ELSE Thrown("RangeError", idx)

readI32(buf, idx, le) ==
    IF InBounds(buf, idx, 4) THEN Ok(getInt32(buf, idx, le), idx + 4)
    ELSE Thrown("RangeError", idx)

\* the offset of the first zero byte at or after i; Len(buf) or more if none
RECURSIVE ZeroFrom(_, _)
ZeroFrom(buf, i) ==
    IF ~InBounds(buf, i, 1) THEN i
    ELSE IF ByteAt(buf, i) = 0 THEN i
    ELSE ZeroFrom(buf, i + 1)

readNullTerminatedString(buf, idx) ==
    LET z == ZeroFrom(buf, idx)
    IN  IF InBounds(buf, z, 1) THEN Ok(Span(idx, z + 1), z + 1)
        ELSE Thrown("RangeError", z)

getSpan(buf, idx, length) ==
    LET end == idx + length
    IN  IF end > Len(buf) THEN Thrown("EOF", end)
        ELSE Ok(Span(idx, end), end)

getSpanTo(buf, idx, end) ==
    IF end > Len(buf) THEN Thrown("EOF", end)
    ELSE Ok(Span(idx, end), end)

consumeIfEquals(buf, idx, bytes) ==
    IF Len(bytes) + idx >= Len(buf) THEN Ok(FALSE, idx)
    ELSE IF \E i \in 0 .. Len(bytes) - 1 : bytes[i + 1] # ByteAt(buf, idx + i)
         THEN Ok(FALSE, idx)
    ELSE Ok(TRUE, idx + Len(bytes))

(***************************************************************************)
(* PNG: src/src/parser/png.ts                                              *)
(***************************************************************************)

Field(name, kind) == [name |-> name, kind |-> kind]

\* the chunk names of the table, as the four bytes readChunkName compares
ChunkName(name) ==
    CASE name = "IHDR" -> <<73, 72, 68, 82>>
      [] name = "IDAT" -> <<73, 68, 65, 84>>
      [] name = "IEND" -> <<73, 69, 78, 68>>
      [] name = "pHYs" -> <<112, 72, 89, 115>>
      [] name = "cHRM" -> <<99, 72, 82, 77>>
      [] name = "iCCP" -> <<105, 67, 67, 80>>
      [] name = "zTXt" -> <<122, 84, 88, 116>>
      [] name = "eXIf" -> <<101, 88, 73, 102>>
      [] name = "tEXt" -> <<116, 69, 88, 116>>
      [] name = "oRNT" -> <<111, 82, 78, 84>>
      [] name = "tIME" -> <<116, 73, 77, 69>>
      [] name = "gAMA" -> <<103, 65, 77, 65>>
      [] name = "sRGB" -> <<115, 82, 71, 66>>

KnownChunkNames ==
    {ChunkName(name) : name \in {"IHDR", "IDAT", "IEND", "pHYs", "cHRM", "iCCP", "zTXt",
                                  "eXIf", "tEXt", "oRNT", "tIME", "gAMA", "sRGB"}}

CHUNK_DEFINITIONS(name) ==
    CASE name = ChunkName("IHDR") -> <<Field("width", "U32"), Field("height", "U32"),
                          Field("bit_depth", "U8"), Field("color_type", "U8"),
                          Field("compression_method", "U8"),
                          Field("filter_method", "U8"),
                          Field("interlace_method", "U8")>>
      [] name = ChunkName("IDAT") -> <<Field("buffer", "Buffer")>>
      [] name = ChunkName("IEND") -> <<>>
      [] name = ChunkName("pHYs") -> <<Field("pixels_per_unit_x_axis", "U32"),
                          Field("pixels_per_unit_y_axis", "U32"),
                          Field("unit_specifier", "U8")>>
      [] name = ChunkName("cHRM") -> <<Field("white_point_x", "U32"), Field("white_point_y", "U32"),
                          Field("red_x", "U32"), Field("red_y", "U32"),
                          Field("green_x", "U32"), Field("green_y", "U32"),
                          Field("blue_x", "U32"), Field("blue_y", "U32")>>
      [] name = ChunkName("iCCP") -> <<Field("profile_name", "NullTerminated"),
                          Field("compression_method", "U8"),
                          Field("compressed_profile", "Buffer")>>
      [] name = ChunkName("zTXt") -> <<Field("keyword", "NullTerminated"),
                          Field("compression_method", "U8"),
                          Field("compressed_text", "Buffer")>>
      [] name = ChunkName("eXIf") -> <<Field("buffer", "Buffer")>>
      [] name = ChunkName("tEXt") -> <<Field("keyword", "NullTerminated"), Field("text", "Buffer")>>
      [] name = ChunkName("oRNT") -> <<Field("orientation", "U8")>>
      [] name = ChunkName("tIME") -> <<Field("year", "U16"), Field("month", "U8"), Field("day", "U8"),
                          Field("hour", "U8"), Field("minute", "U8"),
                          Field("second", "U8")>>
      [] name = ChunkName("gAMA") -> <<Field("gamma", "U32")>>
      [] name = ChunkName("sRGB") -> <<Field("rendering_intent", "U8")>>

\* PngParser constructs its cursor big-endian
parseFieldKind(buf, idx, kind, chunkEnd) ==
    CASE kind = "U8" -> next(buf, idx)
      [] kind = "U16" -> readU16(buf, idx, FALSE)
      [] kind = "U32" -> readU32(buf, idx, FALSE)
      [] kind = "NullTerminated" -> readNullTerminatedString(buf, idx)
      [] kind = "Buffer" -> getSpanTo(buf, idx, chunkEnd)

\* the fields of definition from the k-th on, appended to obj
RECURSIVE WalkDefinition(_, _, _, _, _, _)
WalkDefinition(buf, idx, definition, chunkEnd, k, obj) ==
    IF k > Len(definition) THEN Ok(obj, idx)
    ELSE Bind(parseFieldKind(buf, idx, definition[k].kind, chunkEnd), LAMBDA r :
         WalkDefinition(buf, r.index, definition, chunkEnd, k + 1,
             Append(obj, [name |-> definition[k].name,
                          kind |-> definition[k].kind,
                          value |-> r.val])))

parseChunkDefinition(buf, idx, definition, chunkEnd) ==
    WalkDefinition(buf, idx, definition, chunkEnd, 1, <<>>)

readChunkName(buf, idx) ==
    IF InBounds(buf, idx, 4) THEN Ok(SubSeq(buf, idx + 1, idx + 4), idx + 4)
    ELSE Thrown("RangeError", idx)

\* parsedData: the fields walked, or undefined for a name not in the table
Parsed(obj) == [defined |-> TRUE, fields |-> obj]

Undefined == [defined |-> FALSE, fields |-> <<>>]

Chunk(name, rawData, crc, parsedData) ==
    [name |-> name, rawData |-> rawData, crc |-> crc, parsedData |-> parsedData]

RawDataFrom_NoReset(dataStart, walked) == walked

\* the index parseChunk reads the raw data span from, after the schema walk
\* that started at dataStart ended at walked
RawDataFrom(dataStart, walked) == dataStart

parseChunk(buf, idx) ==
    Bind(readU32(buf, idx, FALSE), LAMBDA length :
    Bind(readChunkName(buf, length.index), LAMBDA name :
    Bind(IF name.val \in KnownChunkNames
         THEN parseChunkDefinition(buf, name.index, CHUNK_DEFINITIONS(name.val),
                                   name.index + IndexOf(length.val))
         ELSE Ok(<<>>, name.index), LAMBDA parsedData :
    Bind(getSpan(buf, RawDataFrom(name.index, parsedData.index), IndexOf(length.val)),
         LAMBDA rawData :
    Bind(readU32(buf, rawData.index, FALSE), LAMBDA crc :
    Ok(Chunk(name.val, rawData.val, crc.val,
             IF name.val \in KnownChunkNames THEN Parsed(parsedData.val)
             ELSE Undefined),
       crc.index))))))

(***************************************************************************)
(* Fixed layouts: a run of reads in field order                            *)
(***************************************************************************)

readKind(buf, idx, le, kind) ==
    CASE kind = "u8" -> next(buf, idx)
      [] kind = "u16" -> readU16(buf, idx, le)
      [] kind = "u32" -> readU32(buf, idx, le)
      [] kind = "i32" -> readI32(buf, idx, le)

\* the reads of kinds from the k-th on, their values appended to vals; the
\* first read that throws ends the run
RECURSIVE readRun(_, _, _, _, _, _)
readRun(buf, idx, le, kinds, k, vals) ==
    IF k > Len(kinds) THEN Ok(vals, idx)
    ELSE Bind(readKind(buf, idx, le, kinds[k]), LAMBDA r :
         readRun(buf, r.index, le, kinds, k + 1, Append(vals, r.val)))

readAll(buf, idx, le, kinds) == readRun(buf, idx, le, kinds, 1, <<>>)

RECURSIVE Pow2(_)
Pow2(n) == IF n = 0 THEN 1 ELSE 2 * Pow2(n - 1)

(***************************************************************************)
(* GIF container: src/src/parser/gif.ts                                    *)
(***************************************************************************)

Trailer == 59
ExtensionIntroducer == 33
PlainTextExtension == 1
GraphicsExtension == 249
ApplicationExtension == 255
CommentExtension == 254

\* [r, g, b] triples of a color table's bytes
RECURSIVE Triples(_)
Triples(bytes) ==
    IF Len(bytes) < 3 THEN <<>>
    ELSE <<SubSeq(bytes, 1, 3)>> \o Triples(SubSeq(bytes, 4, Len(bytes)))

parseColorTableFromBytes(bytes) ==
    IF Len(bytes) % 3 # 0 THEN Thrown("InvalidColorTableLength", Len(bytes))
    ELSE Ok(Triples(bytes), Len(bytes))

\* a color table of numBytes bytes at idx
readColorTable(buf, idx, numBytes) ==
    Bind(getSpan(buf, idx, numBytes), LAMBDA span :
    Bind(parseColorTableFromBytes(Slice(buf, span.val.start, span.val.end)),
         LAMBDA colors :
    Ok([isNull |-> FALSE, colors |-> colors.val, span |-> span.val], span.index)))

NoColorTable == [isNull |-> TRUE, colors |-> <<>>, span |-> Span(0, 0)]

LogicalScreenDescriptor(width, height, descriptor, bg, aspect, span) ==
    [width |-> width, height |-> height, descriptor |-> descriptor,
     background_color_index |-> bg, pixel_aspect_ratio |-> aspect, span |-> span,
     hasGlobalColorTable |-> (descriptor \div 128) = 1,
     sorted |-> ((descriptor \div 8) % 2) = 1,
     globalColorTableSize |-> descriptor % 8,
     colorResolution |-> (descriptor \div 16) % 8]

parseLogicalScreenDescriptor(buf, idx) ==
    Bind(readAll(buf, idx, TRUE, <<"u16", "u16", "u8", "u8", "u8">>), LAMBDA r :
    Ok(LogicalScreenDescriptor(r.val[1], r.val[2], r.val[3], r.val[4], r.val[5],
                               Span(idx, r.index)), r.index))

parseGlobalColorTable(buf, idx, lsd) ==
    IF ~lsd.hasGlobalColorTable THEN Ok(NoColorTable, idx)
    ELSE readColorTable(buf, idx, 3 * Pow2(lsd.globalColorTableSize + 1))

\* the blocks from idx on, their bytes appended to data, up to the zero length
RECURSIVE SubBlocks(_, _, _)
SubBlocks(buf, idx, data) ==
    Bind(peek(buf, idx), LAMBDA p :
    IF p.val = 0 THEN Ok(data, idx)
    ELSE Bind(next(buf, idx), LAMBDA len :
         Bind(getSpan(buf, len.index, len.val), LAMBDA span :
         SubBlocks(buf, span.index, data \o Slice(buf, span.val.start, span.val.end)))))

\* a parseSubBlocks that leaves the terminating zero unread
parseSubBlocks_TerminatorLeft(buf, idx) == SubBlocks(buf, idx, <<>>)

parseSubBlocks(buf, idx) ==
    Bind(SubBlocks(buf, idx, <<>>), LAMBDA blocks :
    Bind(next(buf, blocks.index), LAMBDA terminator :
    Ok(blocks.val, terminator.index)))

parsePlainTextExtension(buf, idx, start) ==
    Bind(next(buf, idx), LAMBDA numBytesToSkip :
    Bind(getSpan(buf, numBytesToSkip.index, numBytesToSkip.val), LAMBDA skippedBytes :
    Bind(parseSubBlocks(buf, skippedBytes.index), LAMBDA data :
    Ok([kind |-> "plain", numBytesToSkip |-> numBytesToSkip.val,
        skippedBytes |-> skippedBytes.val, data |-> data.val,
        span |-> Span(start, data.index)], data.index))))

parseGce(buf, idx, start) ==
    Bind(readAll(buf, idx, TRUE, <<"u8", "u8", "u16", "u8", "u8">>), LAMBDA r :
    Ok([kind |-> "graphics", byteSize |-> r.val[1], bitFlags |-> r.val[2],
        delayTime |-> r.val[3], transparentColorIndex |-> r.val[4],
        blockTerminator |-> r.val[5], span |-> Span(start, r.index)], r.index))

parseApplicationExtension(buf, idx, start) ==
    Bind(getSpan(buf, idx, 8), LAMBDA netscape :
    Bind(getSpan(buf, netscape.index, 3), LAMBDA version :
    Bind(readAll(buf, version.index, TRUE, <<"u8", "u8", "u16", "u16">>), LAMBDA r :
    Ok([kind |-> "application", netscape |-> netscape.val, version |-> version.val,
        length |-> r.val[1], index |-> r.val[2], numExecutions |-> r.val[3],
        terminator |-> r.val[4], span |-> Span(start, r.index)], r.index))))

parseCommentExtension(buf, idx, start) ==
    Bind(parseSubBlocks(buf, idx), LAMBDA data :
    Ok([kind |-> "comment", data |-> data.val, span |-> Span(start, data.index)],
       data.index))

parseExtension(buf, idx) ==
    Bind(next(buf, idx), LAMBDA introducer :
    Bind(next(buf, introducer.index), LAMBDA label :
    CASE label.val = PlainTextExtension ->
             parsePlainTextExtension(buf, label.index, introducer.index)
      [] label.val = GraphicsExtension -> parseGce(buf, label.index, introducer.index)
      [] label.val = ApplicationExtension ->
             parseApplicationExtension(buf, label.index, introducer.index)
      [] label.val = CommentExtension ->
             parseCommentExtension(buf, label.index, introducer.index)
      [] OTHER -> Thrown("UnexpectedExtension", label.index)))

\* while (peek() === ExtensionIntroducer) extensions.push(parseExtension())
RECURSIVE parseExtensions(_, _, _)
parseExtensions(buf, idx, extensions) ==
    Bind(peek(buf, idx), LAMBDA p :
    IF p.val # ExtensionIntroducer THEN Ok(extensions, idx)
    ELSE Bind(parseExtension(buf, idx), LAMBDA e :
         parseExtensions(buf, e.index, Append(extensions, e.val))))

ImageDescriptor(magic, left, top, width, height, bitflags, span) ==
    [magic |-> magic, left |-> left, top |-> top, width |-> width, height |-> height,
     bitflags |-> bitflags,
     interlaced |-> ((bitflags \div 64) % 2) = 1,
     sorted |-> ((bitflags \div 32) % 2) = 1,
     reserved |-> (bitflags \div 8) % 4,
     hasLocalColorTable |-> (bitflags \div 128) = 1,
     localColorTableSize |-> bitflags % 8,
     span |-> span]

parseImageDescriptor(buf, idx) ==
    Bind(readAll(buf, idx, TRUE, <<"u8", "u16", "u16", "u16", "u16", "u8">>), LAMBDA r :
    Ok(ImageDescriptor(r.val[1], r.val[2], r.val[3], r.val[4], r.val[5], r.val[6],
                       Span(idx, r.index)), r.index))

\* one turn of parse()'s loop: the extensions, the descriptor, the local
\* color table, the code size and the data of one image
parseImage(buf, idx) ==
    Bind(parseExtensions(buf, idx, <<>>), LAMBDA extensions :
    Bind(parseImageDescriptor(buf, extensions.index), LAMBDA descriptor :
    Bind(IF descriptor.val.hasLocalColorTable
         THEN readColorTable(buf, descriptor.index,
                             3 * Pow2(descriptor.val.localColorTableSize + 1))
         ELSE Ok(NoColorTable, descriptor.index), LAMBDA localColorTable :
    Bind(next(buf, localColorTable.index), LAMBDA minCodeSize :
    Bind(parseSubBlocks(buf, minCodeSize.index), LAMBDA data :
    Ok([extensions |-> extensions.val, descriptor |-> descriptor.val,
        localColorTable |-> localColorTable.val, minCodeSize |-> minCodeSize.val,
        data |-> data.val, span |-> Span(localColorTable.index, data.index)],
       data.index))))))

skipTrailer_NoAtEnd(buf, idx) == next(buf, idx)

\* the end of parse(): skip the trailer, then nothing may follow
skipTrailer(buf, idx) ==
    Bind(next(buf, idx), LAMBDA trailer :
    IF ~atEnd(buf, trailer.index) THEN Thrown("TrailingBytes", trailer.index)
    ELSE trailer)

(***************************************************************************)
(* EXIF: src/unnamed/part_000                                              *)
(***************************************************************************)

EXIF_TAG == 34665
GPS_TAG == 34853

\* bytes per element of a field type; 0 stands for `invalid field type` thrown
fieldTypeSize(type) ==
    CASE type \in {1, 2, 7} -> 1
      [] type = 3 -> 2
      [] type \in {4, 9} -> 4
      [] type \in {5, 10} -> 8
      [] OTHER -> 0

\* field.count * fieldTypeSize(field.type) <= 4
fieldSizeAtMost4(field) ==
    field.count.hi = 0 /\ field.count.lo * fieldTypeSize(field.type) <= 4

\* a value is a number or an array of numbers or of {numerator, denom}
Scalar(n) == [scalar |-> TRUE, items |-> <<n>>]

Array(items) == [scalar |-> FALSE, items |-> items]

\* the return taken inside the switch of readFieldValue; valueOffset >> 24
\* and valueOffset >> 16 are ToInt32 followed by an arithmetic shift
inlineValue(field) ==
    LET firstByte == IF field.valueOffset.hi >= 32768
                     THEN (field.valueOffset.hi \div 256) - 256
                     ELSE field.valueOffset.hi \div 256
        highShort == IF field.valueOffset.hi >= 32768 THEN field.valueOffset.hi - 65536
                     ELSE field.valueOffset.hi
        b1 == NumOf(firstByte)
        b2 == NumOf(field.valueOffset.hi % 256)
        b3 == NumOf(field.valueOffset.lo \div 256)
        b4 == NumOf(field.valueOffset.lo % 256)
        count == field.count.lo
    IN  CASE field.type \in {1, 2, 7} ->
               IF count = 1 THEN Scalar(b1)
               ELSE IF count = 2 THEN Array(<<b1, b2>>)
               ELSE IF count = 3 THEN Array(<<b1, b2, b3>>)
               ELSE Array(<<b1, b2, b3, b4>>)
          [] field.type = 3 ->
               IF count = 1 THEN Scalar(NumOf(highShort))
               ELSE Array(<<NumOf(highShort),
                            NumOf(field.valueOffset.lo)>>)
          [] field.type = 4 -> Scalar(field.valueOffset)
          [] field.type = 9 -> Scalar(field.valueOffset)

Rational(numerator, denom) == [numerator |-> numerator, denom |-> denom]

\* one iteration of the loop of readFieldValue
readElement(buf, idx, le, type) ==
    CASE type \in {1, 2, 7} -> Bind(next(buf, idx), LAMBDA r : Ok(NumOf(r.val), r.index))
      [] type = 3 -> Bind(readU16(buf, idx, le), LAMBDA r : Ok(NumOf(r.val), r.index))
      [] type = 4 -> readU32(buf, idx, le)
      [] type = 5 -> Bind(readU32(buf, idx, le), LAMBDA numerator :
                     Bind(readU32(buf, numerator.index, le), LAMBDA denom :
                     Ok(Rational(numerator.val, denom.val), denom.index)))
      [] type = 9 -> readI32(buf, idx, le)
      [] type = 10 -> Bind(readI32(buf, idx, le), LAMBDA numerator :
                      Bind(readI32(buf, numerator.index, le), LAMBDA denom :
                      Ok(Rational(numerator.val, denom.val), denom.index)))

\* n more iterations; a read past the end throws and ends the loop
RECURSIVE readElements(_, _, _, _, _, _)
readElements(buf, idx, le, type, n, values) ==
    IF n = 0 THEN Ok(values, idx)
    ELSE Bind(readElement(buf, idx, le, type), LAMBDA r :
         readElements(buf, r.index, le, type, n - 1, Append(values, r.val)))

\* What readFieldValue returns and what it did to the cursor on the way (the
\* switch under `fieldSize <= 4` has cases for types 1, 2, 7, 3, 4 and 9):
\* seeks counts its assignments to buffer.index, reads the elements it read
\* from the buffer.  The cursor is where it was when the call returns.
FieldValue(value, seeks, reads) == [value |-> value, seeks |-> seeks, reads |-> reads]

\* a readFieldValue that does not assign buffer.index back
readFieldValue_NoRestore(buf, idx, le, field) ==
    IF fieldTypeSize(field.type) = 0 THEN Thrown("InvalidFieldType", idx)
    ELSE IF fieldSizeAtMost4(field) /\ field.type \in {1, 2, 7, 3, 4, 9}
         THEN Ok(FieldValue(inlineValue(field), 0, 0), idx)
    ELSE Bind(readElements(buf, IndexOf(field.valueOffset), le, field.type,
                           IndexOf(field.count), <<>>), LAMBDA values :
         Ok(FieldValue(Array(values.val), 1, Len(values.val)), values.index))

readFieldValue(buf, idx, le, field) ==
    IF fieldTypeSize(field.type) = 0 THEN Thrown("InvalidFieldType", idx)
    ELSE IF fieldSizeAtMost4(field) /\ field.type \in {1, 2, 7, 3, 4, 9}
         THEN Ok(FieldValue(inlineValue(field), 0, 0), idx)
    ELSE Bind(readElements(buf, IndexOf(field.valueOffset), le, field.type,
                           IndexOf(field.count), <<>>), LAMBDA values :
         Ok(FieldValue(Array(values.val), 2, Len(values.val)), idx))

ExifField(tag, type, count, valueOffset, value) ==
    [tag |-> tag, type |-> type, count |-> count, valueOffset |-> valueOffset,
     value |-> value]

\* one iteration of the loop of readIfd
readField(buf, idx, le) ==
    Bind(readU16(buf, idx, le), LAMBDA tag :
    Bind(readU16(buf, tag.index, le), LAMBDA type :
    Bind(readU32(buf, type.index, le), LAMBDA count :
    Bind(readU32(buf, count.index, le), LAMBDA valueOffset :
    Bind(readFieldValue(buf, valueOffset.index, le,
             ExifField(tag.val, type.val, count.val, valueOffset.val, Null)), LAMBDA v :
    Ok(ExifField(tag.val, type.val, count.val, valueOffset.val, v.val.value),
       v.index))))))

RECURSIVE readFields(_, _, _, _, _)
readFields(buf, idx, le, n, fields) ==
    IF n = 0 THEN Ok(fields, idx)
    ELSE Bind(readField(buf, idx, le), LAMBDA r :
         readFields(buf, r.index, le, n - 1, Append(fields, r.val)))

readIfd(buf, idx, le) ==
    Bind(readU16(buf, idx, le), LAMBDA numFields :
    Bind(readFields(buf, numFields.index, le, numFields.val, <<>>), LAMBDA fields :
    Bind(readU32(buf, fields.index, le), LAMBDA nextIfd :
    Ok([numFields |-> numFields.val, fields |-> fields.val, nextIfd |-> nextIfd.val],
       nextIfd.index))))

readTiffHeader(buf, idx, le) ==
    Bind(readU16(buf, idx, le), LAMBDA byteOrder :
    Bind(readU16(buf, byteOrder.index, le), LAMBDA fortyTwo :
    Bind(readU32(buf, fortyTwo.index, le), LAMBDA ifdOffset :
    Ok([byteOrder |-> byteOrder.val, fortyTwo |-> fortyTwo.val,
        ifdOffset |-> ifdOffset.val], ifdOffset.index))))

\* fields.find((t) => t.tag === tag)?.valueOffset, tested for truthiness:
\* the offset of the first field with the tag, if there is one and it is not 0
HasOffset(fields, tag) ==
    \E i \in 1 .. Len(fields) :
        /\ fields[i].tag = tag
        /\ \A j \in 1 .. i - 1 : fields[j].tag # tag
        /\ ~NumIsZero(fields[i].valueOffset)

OffsetOf(fields, tag) ==
    LET i == CHOOSE i \in 1 .. Len(fields) :
                 fields[i].tag = tag /\ \A j \in 1 .. i - 1 : fields[j].tag # tag
    IN  IndexOf(fields[i].valueOffset)

\* `fields` is the root IFD's own array: the sub-IFD's fields are pushed
\* onto it, so a later lookup searches them too
followIfd(buf, idx, le, fields, tag) ==
    IF ~HasOffset(fields, tag) THEN Ok(fields, idx)
    ELSE Bind(readIfd(buf, OffsetOf(fields, tag), le), LAMBDA ifd :
         Ok(fields \o ifd.val.fields, ifd.index))

\* ExifParser.parse from start to end
parseExif(buf, le) ==
    Bind(readTiffHeader(buf, 0, le), LAMBDA header :
    Bind(readIfd(buf, IndexOf(header.val.ifdOffset), le), LAMBDA ifd :
    Bind(followIfd(buf, ifd.index, le, ifd.val.fields, EXIF_TAG), LAMBDA withExif :
    followIfd(buf, withExif.index, le, withExif.val, GPS_TAG))))

(***************************************************************************)
(* ZIP: src/unnamed/part_008                                               *)
(***************************************************************************)

CENTRAL_DIRECTORY_FILE_SIGNATURE == <<80, 75, 1, 2>>
END_CENTRAL_DIRECTORY_SIGNATURE == <<80, 75, 5, 6>>

\* the loop of parseEndOfCentralDirectory from offset idx downwards: the
\* cursor after the signature it finds, or `missing central directory`
\* thrown with the cursor where the loop left it
\* the scan without `if (!found) throw`
RECURSIVE scanEndOfCentralDirectory_NoThrow(_, _, _)
scanEndOfCentralDirectory_NoThrow(buf, idx, left) ==
    IF ~(idx > 0) THEN Ok(FALSE, left)
    ELSE Bind(consumeIfEquals(buf, idx, END_CENTRAL_DIRECTORY_SIGNATURE), LAMBDA found :
         IF found.val THEN Ok(TRUE, found.index)
         ELSE scanEndOfCentralDirectory_NoThrow(buf, idx - 1, idx))

RECURSIVE scanEndOfCentralDirectory(_, _, _)
scanEndOfCentralDirectory(buf, idx, left) ==
    IF ~(idx > 0) THEN Thrown("MissingCentralDirectory", left)
    ELSE Bind(consumeIfEquals(buf, idx, END_CENTRAL_DIRECTORY_SIGNATURE), LAMBDA found :
         IF found.val THEN Ok(TRUE, found.index)
         ELSE scanEndOfCentralDirectory(buf, idx - 1, idx))

parseEndOfCentralDirectory(buf, idx, le) ==
    Bind(scanEndOfCentralDirectory(buf, Len(buf) - 1, idx), LAMBDA found :
    Bind(readAll(buf, found.index, le, <<"u16", "u16", "u16", "u16", "u32", "u32", "u16">>),
         LAMBDA f :
    Bind(getSpan(buf, f.index, f.val[7]), LAMBDA comment :
    Ok([disk_num |-> f.val[1], disk_central_dir_num |-> f.val[2],
        disk_entires |-> f.val[3], total_entires |-> f.val[4],
        central_dir_size |-> f.val[5], central_dir_offset |-> f.val[6],
        comment |-> comment.val], comment.index))))

\* the body of the loop of readCentralDirectoryFileHeaders, after the
\* signature has been consumed
readCentralDirectoryFileHeader(buf, idx, le) ==
    Bind(readAll(buf, idx, le, <<"u8", "u8", "u16", "u16", "u16", "u32", "u32", "u32", "u32",
                                  "u16", "u16", "u16", "u16", "u16", "u32", "u32">>),
         LAMBDA f :
    Bind(getSpan(buf, f.index, f.val[10]), LAMBDA file_name :
    Bind(getSpan(buf, file_name.index, f.val[11]), LAMBDA extra_field :
    Bind(getSpan(buf, extra_field.index, f.val[12]), LAMBDA comment :
    Ok([os |-> f.val[1],
        metadata |-> [version_needed |-> f.val[3], compression_method |-> f.val[5],
                      date_time_modified |-> f.val[6], flags |-> f.val[4],
                      name |-> file_name.val, extra_field |-> extra_field.val,
                      crc |-> f.val[7], compressed_size |-> f.val[8],
                      uncompressed_size |-> f.val[9]],
        internal_attributes |-> f.val[14], external_attributes |-> f.val[15],
        disk_num_start |-> f.val[13], zip_specification_version |-> f.val[2],
        local_header_offset |-> f.val[16], comment |-> comment.val],
       comment.index)))))

(***************************************************************************)
(* BMP: src/src/parse/bmp.ts                                               *)
(***************************************************************************)

\* BufferParser.getSpanToEnd: the span from the cursor to the end of the buffer
getSpanToEnd(buf, idx) == Ok(Span(idx, Len(buf)), Len(buf))

parseHeader(buf, idx, le) ==
    Bind(getSpan(buf, idx, 2), LAMBDA signature :
    Bind(readAll(buf, signature.index, le, <<"u32", "u32", "u32">>), LAMBDA f :
    Ok([signature |-> signature.val, file_size |-> f.val[1], reserved |-> f.val[2],
        data_offset |-> f.val[3], span |-> Span(idx, f.index)], f.index)))

parseInfoHeader(buf, idx, le, start, info_header_size) ==
    Bind(readAll(buf, idx, le, <<"u32", "u32", "u16", "u16", "u32", "u32", "u32", "u32",
                                  "u32", "u32">>), LAMBDA f :
    Ok([info_header_size |-> info_header_size, width |-> f.val[1], height |-> f.val[2],
        planes |-> f.val[3], bits_per_pixel |-> f.val[4],
        compression_method |-> f.val[5], compressed_image_size |-> f.val[6],
        x_pixels_per_m |-> f.val[7], y_pixels_per_m |-> f.val[8],
        colors_used |-> f.val[9], important_colors |-> f.val[10],
        span |-> Span(start, f.index)], f.index))

\* the info header's fields, then masks, color space, endpoints, gammas,
\* intent, profile and reserved
parseV5Header(buf, idx, le, start, info_header_size) ==
    Bind(readAll(buf, idx, le, <<"u32", "u32", "u16", "u16", "u32", "u32", "u32", "u32",
                                  "u32", "u32", "u32", "u32", "u32", "u32">>), LAMBDA f :
    Bind(getSpan(buf, f.index, 4), LAMBDA color_space :
    Bind(readAll(buf, color_space.index, le,
                 <<"u32", "u32", "u32", "u32", "u32", "u32", "u32", "u32", "u32",
                   "u32", "u32", "u32", "u32", "u32", "u32", "u32">>), LAMBDA g :
    Ok([info_header_size |-> info_header_size, width |-> f.val[1], height |-> f.val[2],
        planes |-> f.val[3], bits_per_pixel |-> f.val[4],
        compression_method |-> f.val[5], compressed_image_size |-> f.val[6],
        x_pixels_per_m |-> f.val[7], y_pixels_per_m |-> f.val[8],
        colors_used |-> f.val[9], important_colors |-> f.val[10],
        red_mask |-> f.val[11], green_mask |-> f.val[12], blue_mask |-> f.val[13],
        alpha_mask |-> f.val[14], color_space |-> color_space.val,
        endpoints |-> SubSeq(g.val, 1, 9), gamma_red |-> g.val[10],
        gamma_green |-> g.val[11], gamma_blue |-> g.val[12],
        rendering_intent |-> g.val[13], profile_data |-> g.val[14],
        profile_size |-> g.val[15], reserved |-> g.val[16],
        span |-> Span(start, g.index)], g.index))))

parseDibHeader(buf, idx, le) ==
    Bind(readU32(buf, idx, le), LAMBDA info_header_size :
    IF info_header_size.val = Num(0, 124)
    THEN parseV5Header(buf, info_header_size.index, le, idx, info_header_size.val)
    ELSE parseInfoHeader(buf, info_header_size.index, le, idx, info_header_size.val))

parseColorTable_StoredOrder(buf, idx, len) ==
    Bind(getSpan(buf, idx, len), LAMBDA span :
    IF len % 4 # 0 THEN Thrown("InvalidColorTableLength", span.index)
    ELSE Ok([isNull |-> FALSE, span |-> span.val,
             colors |-> [i \in 1 .. len \div 4 |->
                            <<ByteAt(buf, idx + 4 * (i - 1)),
                              ByteAt(buf, idx + 4 * (i - 1) + 1),
                              ByteAt(buf, idx + 4 * (i - 1) + 2),
                              ByteAt(buf, idx + 4 * (i - 1) + 3)>>]], span.index))

\* [r, g, b, a] of each 4 bytes b, g, r, a
parseColorTable(buf, idx, len) ==
    Bind(getSpan(buf, idx, len), LAMBDA span :
    IF len % 4 # 0 THEN Thrown("InvalidColorTableLength", span.index)
    ELSE Ok([isNull |-> FALSE, span |-> span.val,
             colors |-> [i \in 1 .. len \div 4 |->
                            <<ByteAt(buf, idx + 4 * (i - 1) + 2),
                              ByteAt(buf, idx + 4 * (i - 1) + 1),
                              ByteAt(buf, idx + 4 * (i - 1)),
                              ByteAt(buf, idx + 4 * (i - 1) + 3)>>]], span.index))

\* parse after the headers: the color table if there is one, the seek to the
\* pixel data and the span to the end
parsePixels(buf, idx, header, dib) ==
    Bind(IF dib.bits_per_pixel \in {4, 8}
         THEN parseColorTable(buf, idx, IF dib.colors_used.hi # 0 THEN Far
                                         ELSE dib.colors_used.lo * 4)
         ELSE Ok(NoColorTable, idx), LAMBDA color_table :
    Bind(getSpanToEnd(buf, IndexOf(header.data_offset)), LAMBDA pixels :
    Ok([header |-> header, dib |-> dib, color_table |-> color_table.val,
        pixels |-> pixels.val], pixels.index)))

(***************************************************************************)
(* ICC profiles: src/unnamed/part_002.  The profile is read through a      *)
(* DataView (big-endian reads, RangeError outside the buffer) and through  *)
(* slices of the buffer, which are clamped and never throw.                *)
(***************************************************************************)

\* DataView.getUint32(offset) / getInt32(offset)
viewUint32(buf, offset) ==
    IF InBounds(buf, offset, 4) THEN Ok(getUint32(buf, offset, FALSE), offset)
    ELSE Thrown("RangeError", offset)

viewInt32(buf, offset) ==
    IF InBounds(buf, offset, 4) THEN Ok(getInt32(buf, offset, FALSE), offset)
    ELSE Thrown("RangeError", offset)

\* String.prototype.trim on decoded bytes: white space off both ends
RECURSIVE trim(_)
trim(bytes) ==
    IF bytes = <<>> THEN <<>>
    ELSE IF Head(bytes) \in {9, 10, 11, 12, 13, 32} THEN trim(Tail(bytes))
    ELSE IF bytes[Len(bytes)] \in {9, 10, 11, 12, 13, 32}
         THEN trim(SubSeq(bytes, 1, Len(bytes) - 1))
    ELSE bytes

toLowerCase(bytes) ==
    [i \in 1 .. Len(bytes) |-> IF bytes[i] \in 65 .. 90 THEN bytes[i] + 32 ELSE bytes[i]]

\* the keys of valueMap: scnr mntr prtr link abst spac nmcl appl adbe msft sunw sgi tgnt
valueMap ==
    {<<115, 99, 110, 114>>, <<109, 110, 116, 114>>, <<112, 114, 116, 114>>,
     <<108, 105, 110, 107>>, <<97, 98, 115, 116>>, <<115, 112, 97, 99>>,
     <<110, 109, 99, 108>>, <<97, 112, 112, 108>>, <<97, 100, 98, 101>>,
     <<109, 115, 102, 116>>, <<115, 117, 110, 119>>, <<115, 103, 105>>,
     <<116, 103, 110, 116>>}

\* the keys of tagMap: desc cprt dmdd vued wtpt
tagMap ==
    {<<100, 101, 115, 99>>, <<99, 112, 114, 116>>, <<100, 109, 100, 100>>,
     <<118, 117, 101, 100>>, <<119, 116, 112, 116>>}

\* the trimmed text of 4 bytes, or the name valueMap has for it (mapped),
\* which is none of the keys of tagMap and none of the tag types
getContentAtOffsetAsString(buf, offset) ==
    LET value == trim(Slice(buf, offset, offset + 4))
    IN  IF toLowerCase(value) \in valueMap
        THEN [mapped |-> TRUE, text |-> toLowerCase(value)]
        ELSE [mapped |-> FALSE, text |-> value]

IsText(content, text) == ~content.mapped /\ content.text = text

\* versionMap[n] and intentMap[n]: <<>> stands for undefined
versionMap(n) ==
    IF n.lo = 0 /\ n.hi \in {512, 528, 576, 1024, 1056, 1072, 1088}
    THEN <<n.hi \div 256, (n.hi % 256) \div 16>> ELSE <<>>

intentMap(n) == IF n.hi = 0 /\ n.lo \in 0 .. 3 THEN <<n.lo>> ELSE <<>>

Attr(key, value) == [key |-> key, value |-> value]

\* the four-byte string attributes from the k-th on
RECURSIVE iccAttributes(_, _, _, _)
iccAttributes(buf, attrs, k, profile) ==
    IF k > Len(attrs) THEN Ok(profile, 0)
    ELSE Bind(viewUint32(buf, attrs[k][1]), LAMBDA content :
         iccAttributes(buf, attrs, k + 1,
             IF NumIsZero(content.val) THEN profile
             ELSE Append(profile, Attr(attrs[k][2],
                             getContentAtOffsetAsString(buf, attrs[k][1])))))

\* parse up to the tag loop: the profile so far and tagCount
iccHeader(buf) ==
    Bind(viewUint32(buf, 0), LAMBDA size :
    IF IndexOf(size.val) # Len(buf) THEN Thrown("InvalidIcc: length mismatch", 0)
    ELSE IF Slice(buf, 36, 40) # <<97, 99, 115, 112>>
         THEN Thrown("InvalidIcc: missing signature", 0)
    ELSE Bind(viewUint32(buf, 8), LAMBDA version :
         Bind(viewUint32(buf, 64), LAMBDA intent :
         Bind(iccAttributes(buf, <<<<4, "cmm">>, <<12, "deviceClass">>,
                                   <<16, "colorSpace">>, <<20, "connectionSpace">>,
                                   <<40, "platform">>, <<48, "manufacturer">>,
                                   <<52, "model">>, <<80, "creator">>>>, 1,
                            <<Attr("version", versionMap(version.val)),
                              Attr("intent", intentMap(intent.val))>>), LAMBDA profile :
         Bind(viewUint32(buf, 128), LAMBDA tagCount :
         Ok([profile |-> profile.val, tagCount |-> tagCount.val, i |-> 0], 132))))))

\* the code units read pairwise from tagOffset + nameOffset up to nameLength
\* bytes on; every pair read must lie in the buffer
readStringUTF16BE(buf, tagOffset, nameOffset, nameLength) ==
    IF nameLength = 0 THEN Ok(<<<<>>>>, tagOffset)
    ELSE IF nameOffset = Far \/ nameLength = Far
            \/ tagOffset + nameOffset + 2 * ((nameLength + 1) \div 2) > Len(buf)
         THEN Thrown("RangeError", tagOffset)
    ELSE Ok(<<Slice(buf, tagOffset + nameOffset,
                    tagOffset + nameOffset + 2 * ((nameLength + 1) \div 2))>>, tagOffset)

\* The value a tag of a known signature adds to the profile, in a
\* one-element sequence: the bytes handed to the text decoder, or the three
\* XYZ numbers as read (the code divides each by 65536).  <<>> if its type
\* is none of desc, text, mluc, XYZ, or it is an mluc without names.
iccTagValue(buf, tagOffset, tagSize, tagType) ==
    IF IsText(tagType, <<100, 101, 115, 99>>)
    THEN Bind(viewUint32(buf, tagOffset + 8), LAMBDA tagValueSize :
         IF tagValueSize.val.hi > tagSize.hi
            \/ (tagValueSize.val.hi = tagSize.hi /\ tagValueSize.val.lo > tagSize.lo)
         THEN Thrown("InvalidIcc: description tag value size out of bounds", tagOffset)
         ELSE Ok(<<Slice(buf, tagOffset + 12, tagOffset + IndexOf(tagValueSize.val) + 11)>>,
                 tagOffset))
    ELSE IF IsText(tagType, <<116, 101, 120, 116>>)
    THEN Ok(<<Slice(buf, tagOffset + 8, tagOffset + IndexOf(tagSize) - 7)>>, tagOffset)
    ELSE IF IsText(tagType, <<109, 108, 117, 99>>)
    THEN Bind(viewUint32(buf, tagOffset + 8), LAMBDA numberOfNames :
         Bind(viewUint32(buf, tagOffset + 12), LAMBDA nameRecordSize :
         IF nameRecordSize.val # Num(0, 12)
         THEN Thrown("InvalidIcc: mluc name record size must be 12", tagOffset)
         ELSE IF NumIsZero(numberOfNames.val) THEN Ok(<<>>, tagOffset)
         ELSE Bind(viewUint32(buf, tagOffset + 20), LAMBDA nameLength :
              Bind(viewUint32(buf, tagOffset + 24), LAMBDA nameOffset :
              readStringUTF16BE(buf, tagOffset, IndexOf(nameOffset.val),
                                IndexOf(nameLength.val))))))
    ELSE IF IsText(tagType, <<88, 89, 90>>)
    THEN Bind(viewInt32(buf, tagOffset + 8), LAMBDA x :
         Bind(viewInt32(buf, tagOffset + 12), LAMBDA y :
         Bind(viewInt32(buf, tagOffset + 16), LAMBDA z :
         Ok(<<<<x.val, y.val, z.val>>>>, tagOffset))))
    ELSE Ok(<<>>, tagOffset)

\* one iteration of the tag loop, the tag header at tagHeaderOffset; the
\* value is entered in the profile under the tag's signature
iccTag(buf, tagHeaderOffset, state) ==
    LET tagSignature == getContentAtOffsetAsString(buf, tagHeaderOffset)
        skipped == [state EXCEPT !.i = @ + 1]
    IN  IF tagSignature.mapped \/ tagSignature.text \notin tagMap
        THEN Ok(skipped, tagHeaderOffset + 12)
        ELSE Bind(viewUint32(buf, tagHeaderOffset + 4), LAMBDA tagOffset :
             Bind(viewUint32(buf, tagHeaderOffset + 8), LAMBDA tagSize :
             IF IndexOf(tagOffset.val) > Len(buf)
             THEN Thrown("InvalidIcc: tag offset out of bounds", tagHeaderOffset)
             ELSE Bind(iccTagValue(buf, IndexOf(tagOffset.val), tagSize.val,
                           getContentAtOffsetAsString(buf, IndexOf(tagOffset.val))),
                       LAMBDA value :
                  Ok([skipped EXCEPT !.profile =
                         IF value.val = <<>> THEN @
                         ELSE Append(@, Attr(tagSignature.text, value.val[1]))],
                     tagHeaderOffset + 12))))

(***************************************************************************)
(* BitParser (src/parse/buffer.ts): a cursor counted in bits, least        *)
(* significant bit of each byte first.                                     *)
(***************************************************************************)

\* a readBit that takes the bits of a byte from the most significant one
readBit_MsbFirst(buf, cursor) ==
    IF cursor >= 0 /\ cursor \div 8 < Len(buf)
    THEN Ok((ByteAt(buf, cursor \div 8) \div Pow2(7 - (cursor % 8))) % 2, cursor + 1)
    ELSE Thrown("bit parser out of bounds", cursor)

\* readBit: the bit under the cursor; the cursor moves only when it is read
readBit(buf, cursor) ==
    IF cursor >= 0 /\ cursor \div 8 < Len(buf)
    THEN Ok((ByteAt(buf, cursor \div 8) \div Pow2(cursor % 8)) % 2, cursor + 1)
    ELSE Thrown("bit parser out of bounds", cursor)

\* readNBits: `out |= readBit() << i` for i below bits.  A shift count is
\* taken modulo 32, so bit k of the 32-bit accumulator is set when a bit read
\* at some i with i % 32 = k is 1; the accumulator is returned as the signed
\* number `|=` leaves.  The read that runs out of bytes throws, with the cursor
\* past the bits that were read.
readNBits(buf, cursor, bits) ==
    LET left == IF cursor < Len(buf) * 8 THEN Len(buf) * 8 - cursor ELSE 0
        out == [k \in 0 .. 31 |->
                   IF \E i \in 0 .. bits - 1 : i % 32 = k /\ readBit(buf, cursor + i).val = 1
                   THEN 1 ELSE 0]
        RECURSIVE low(_)
        low(k) == IF k = 31 THEN 0 ELSE out[k] + 2 * low(k + 1)
    IN  IF bits > left THEN Thrown("bit parser out of bounds", cursor + left)
        ELSE Ok(IF out[31] = 1 THEN (low(0) - 1073741824) - 1073741824 ELSE low(0),
                IF bits > 0 THEN cursor + bits ELSE cursor)

\* an atEnd that looks at no more than the next 32 bits
bitAtEnd_First32(buf, cursor) ==
    Bind(readNBits(buf, cursor,
                   IF Len(buf) * 8 - cursor > 32 THEN 32 ELSE Len(buf) * 8 - cursor),
         LAMBDA last : Ok(last.val = 0, last.index))

\* BitParser.atEnd: reads every bit that is left and compares the result with 0
bitAtEnd(buf, cursor) ==
    Bind(readNBits(buf, cursor, Len(buf) * 8 - cursor),
         LAMBDA last : Ok(last.val = 0, last.index))

(***************************************************************************)
(* GifImageDecoder.decode (src/src/parser/gif.ts): the LZW code stream of  *)
(* one image, read through a BitParser over image.data.                    *)
(***************************************************************************)
MAX_LWZ_CODE_WIDTH == 12

\* a nextCode that reads `width` bits whatever the width
nextCode_Uncapped(buf, cursor, width) == readNBits(buf, cursor, width)

\* nextCode: the closure over `width` in decode
nextCode(buf, cursor, width) ==
    readNBits(buf, cursor, IF width < MAX_LWZ_CODE_WIDTH THEN width ELSE MAX_LWZ_CODE_WIDTH)

\* a decoder for an image with this minCodeSize, of a gif with or without a
\* global color table, and the locals of decode() before its first statement
GifImageDecoder(minCodeSize, globalColorTable) ==
    [minCodeSize |-> minCodeSize, globalColorTable |-> globalColorTable,
     width |-> minCodeSize + 1, clearCode |-> -1, endCode |-> -1,
     codeTable |-> <<>>, indexStream |-> <<>>, prevCode |-> -1, code |-> -1]

(***************************************************************************)
(* The cursor on its own: a BufferParser over a small buffer, its methods  *)
(* called in any order.  A thrown exception leaves the object as the       *)
(* method left it (getSpan has already moved index when it throws).        *)
(***************************************************************************)

MaxBufLen == 3

BufBytes == {0, 75, 80}

Needles == {<<80>>, <<80, 75>>}

RECURSIVE SeqsUpTo(_, _)
SeqsUpTo(S, n) ==
    IF n = 0 THEN {<<>>}
    ELSE LET shorter == SeqsUpTo(S, n - 1)
         IN  shorter \cup {Append(s, b) : s \in {t \in shorter : Len(t) = n - 1}, b \in S}

NoCalls == <<>>

NoLogical == "none"

NoResult == "none"

Call(op, arg, before, ret) == [op |-> op, arg |-> arg, before |-> before, ret |-> ret]

InitBuf ==
    /\ format = "buffer"
    /\ buffer \in SeqsUpTo(BufBytes, MaxBufLen)
    /\ littleEndian \in BOOLEAN
    /\ index = 0
    /\ pc = "ready"
    /\ result = NoResult
    /\ err = "none"
    /\ calls = NoCalls
    /\ logical = NoLogical

\* a method call: the cursor moves as the method left it
Called(op, arg, ret) ==
    /\ format = "buffer"
    /\ index' = ret.index
    /\ err' = ret.err
    /\ calls' = <<Call(op, arg, index, ret)>>
    /\ UNCHANGED <<format, buffer, littleEndian, pc, result, logical>>

\* a parser assigning this.buffer.index
Seek ==
    /\ format = "buffer"
    /\ \E i \in 0 .. Len(buffer) + 1 :
          /\ index' = i
          /\ calls' = <<Call("seek", i, index, Ok(Null, i))>>
    /\ err' = "none"
    /\ UNCHANGED <<format, buffer, littleEndian, pc, result, logical>>

CallAtEnd == Called("atEnd", Null, Ok(atEnd(buffer, index), index))

CallNext == Called("next", Null, next(buffer, index))

CallPeek == Called("peek", Null, peek(buffer, index))

CallReadU16 == Called("readU16", Null, readU16(buffer, index, littleEndian))

CallReadU32 == Called("readU32", Null, readU32(buffer, index, littleEndian))

CallReadNullTerminatedString ==
    Called("readNullTerminatedString", Null, readNullTerminatedString(buffer, index))

CallGetSpan ==
    \E n \in 0 .. MaxBufLen :
        /\ index + n <= Len(buffer) + 1
        /\ Called("getSpan", n, getSpan(buffer, index, n))

CallGetSpanTo ==
    \E e \in 0 .. Len(buffer) + 1 : Called("getSpanTo", e, getSpanTo(buffer, index, e))

CallConsumeIfEquals ==
    \E bs \in Needles : Called("consumeIfEquals", bs, consumeIfEquals(buffer, index, bs))

NextBuf ==
    \/ Seek
    \/ CallAtEnd
    \/ CallNext
    \/ CallPeek
    \/ CallReadU16
    \/ CallReadU32
    \/ CallReadNullTerminatedString
    \/ CallGetSpan
    \/ CallGetSpanTo
    \/ CallConsumeIfEquals

SpecBuf == InitBuf /\ [][NextBuf]_vars

(***************************************************************************)
(* PngParser.parse, one step per chunk                                     *)
(***************************************************************************)

MaxChunks == 2

PngMagic == <<137, 80, 78, 71, 13, 10, 26, 10>>

NotPngMagic == <<137, 80, 78, 71, 13, 10, 26, 11>>

RECURSIVE Concat(_)
Concat(ss) == IF ss = <<>> THEN <<>> ELSE Head(ss) \o Concat(Tail(ss))

\* a chunk as it lies in a file: length, name, data, CRC
ChunkBytes(name, data, crc) == <<0, 0, 0, Len(data)>> \o name \o data \o crc

PngInputNames ==
    {ChunkName(name) : name \in {"IEND", "IDAT", "tEXt", "tIME", "IHDR"}}
    \cup {<<97, 98, 99, 100>>}

PngInputChunks ==
    {ChunkBytes(name, data, crc) :
        name \in PngInputNames,
        data \in {<<>>, <<0>>, <<1>>},
        crc \in {<<0, 0, 0, 0>>, <<1, 0, 0, 0>>}}

PngInputs ==
    {PngMagic \o Concat(cs) : cs \in SeqsUpTo(PngInputChunks, MaxChunks)}
    \cup {h \o Concat(cs) \o t :
            h \in {PngMagic, NotPngMagic, <<>>, <<137, 80, 78>>},
            cs \in SeqsUpTo(PngInputChunks, 1),
            t \in {<<>>, <<0>>}}

Start(fmt, inputs, le) ==
    /\ format = fmt
    /\ buffer \in inputs
    /\ littleEndian = le
    /\ index = 0
    /\ pc = "start"
    /\ result = NoResult
    /\ err = "none"
    /\ calls = NoCalls
    /\ logical = NoLogical

\* the exception leaves parse(): no record is returned
Fail(kind, idx) ==
    /\ pc' = "failed"
    /\ err' = kind
    /\ index' = idx
    /\ result' = NoResult
    /\ UNCHANGED <<format, buffer, littleEndian, calls, logical>>

InitPng == Start("png", PngInputs, FALSE)

PngParseHeader ==
    /\ format = "png" /\ pc = "start"
    /\ LET header == getSpan(buffer, index, 8)
       IN  IF header.err # "none" THEN Fail(header.err, header.index)
           ELSE /\ pc' = "chunks"
                /\ index' = header.index
                /\ result' = [header |-> header.val, chunks |-> <<>>]
                /\ UNCHANGED <<format, buffer, littleEndian, err, calls, logical>>

PngParseChunk ==
    /\ format = "png" /\ pc = "chunks"
    /\ ~atEnd(buffer, index)
    /\ LET chunk == parseChunk(buffer, index)
       IN  IF chunk.err # "none" THEN Fail(chunk.err, chunk.index)
           ELSE /\ index' = chunk.index
                /\ result' = [result EXCEPT !.chunks = Append(@, chunk.val)]
                /\ UNCHANGED <<format, buffer, littleEndian, pc, err, calls, logical>>

PngReturn ==
    /\ format = "png" /\ pc = "chunks"
    /\ atEnd(buffer, index)
    /\ pc' = "done"
    /\ UNCHANGED <<format, buffer, littleEndian, index, result, err, calls, logical>>

NextPng == PngParseHeader \/ PngParseChunk \/ PngReturn

SpecPng == InitPng /\ [][NextPng]_vars

(***************************************************************************)
(* GifParser.parse, one step per image                                     *)
(***************************************************************************)

MaxGifBlocks == 3

Gif89a == <<71, 73, 70, 56, 57, 97>>

Gif87a == <<71, 73, 70, 56, 55, 97>>

NotGifMagic == <<71, 73, 70, 56, 56, 97>>

\* a logical screen descriptor without and with a two-entry global color table
GifScreens ==
    {<<1, 0, 1, 0, 0, 0, 0>>,
     <<1, 0, 1, 0, 128, 0, 0>> \o <<0, 0, 0, 255, 255, 255>>}

GifImageSegment(flags, table, minCodeSize, blocks) ==
    <<44, 0, 0, 0, 0, 1, 0, 1, 0, flags>> \o table \o <<minCodeSize>> \o blocks

GifSegments ==
    {GifImageSegment(0, <<>>, 2, <<0>>),
     GifImageSegment(0, <<>>, 2, <<2, 76, 1, 0>>),
     GifImageSegment(0, <<>>, 2, <<1, 76, 1, 1, 0>>),
     GifImageSegment(128, <<0, 0, 0, 255, 255, 255>>, 2, <<1, 68, 0>>),
     <<33, 249, 4, 0, 0, 0, 0, 0>>,
     <<33, 254, 1, 65, 0>>,
     <<33, 255, 11, 78, 69, 84, 83, 67, 65, 80, 69, 50, 46, 48, 3, 1, 0, 0, 0>>,
     <<33, 1, 1, 7, 1, 65, 0>>,
     <<33, 2, 0>>,
     <<59>>}

\* files in which the bytes at an image descriptor's place do not begin with
\* the separator: a comment and the trailer with more bytes behind it, and an
\* image whose first byte is 0
GifUnseparatedInputs ==
    {Gif89a \o screen \o pre \o <<first, 0, 0, 0, 0, 1, 0, 1, 0, 0, 2>> \o blocks \o <<59>> :
        screen \in GifScreens,
        pre \in {<<33, 254, 1, 65, 0>>},
        first \in {0, 59},
        blocks \in {<<0>>, <<1, 68, 0>>}}

GifInputs ==
    {Gif89a \o screen \o Concat(segs) :
        screen \in GifScreens, segs \in SeqsUpTo(GifSegments, MaxGifBlocks)}
    \cup {h \o screen \o Concat(segs) :
            h \in {Gif87a, NotGifMagic},
            screen \in GifScreens,
            segs \in SeqsUpTo(GifSegments, 2)}
    \cup {<<>>, <<71, 73, 70>>, Gif89a, Gif89a \o <<1, 0, 1, 0, 128, 0, 0>>}
    \cup GifUnseparatedInputs

InitGif == Start("gif", GifInputs, TRUE)

GifParseHeader ==
    /\ format = "gif" /\ pc = "start"
    /\ LET header == getSpan(buffer, index, 6)
       IN  IF header.err # "none" THEN Fail(header.err, header.index) ELSE
       LET lsd == parseLogicalScreenDescriptor(buffer, header.index)
       IN  IF lsd.err # "none" THEN Fail(lsd.err, lsd.index) ELSE
       LET gct == parseGlobalColorTable(buffer, lsd.index, lsd.val)
       IN  IF gct.err # "none" THEN Fail(gct.err, gct.index)
           ELSE /\ pc' = "images"
                /\ index' = gct.index
                /\ result' = [header |-> header.val,
                              logicalScreenDescriptor |-> lsd.val,
                              globalColorTable |-> gct.val,
                              images |-> <<>>]
                /\ UNCHANGED <<format, buffer, littleEndian, err, calls, logical>>

GifParseImage ==
    /\ format = "gif" /\ pc = "images"
    /\ LET p == peek(buffer, index)
       IN  /\ ~(p.err = "none" /\ p.val = Trailer)
           /\ IF p.err # "none" THEN Fail(p.err, p.index) ELSE
              LET image == parseImage(buffer, index)
              IN  IF image.err # "none" THEN Fail(image.err, image.index)
                  ELSE /\ index' = image.index
                       /\ result' = [result EXCEPT !.images = Append(@, image.val)]
                       /\ UNCHANGED <<format, buffer, littleEndian, pc, err, calls,
                                      logical>>

GifSkipTrailer ==
    /\ format = "gif" /\ pc = "images"
    /\ LET p == peek(buffer, index)
       IN  /\ p.err = "none" /\ p.val = Trailer
           /\ LET r == skipTrailer(buffer, index)
              IN  IF r.err # "none" THEN Fail(r.err, r.index)
                  ELSE /\ pc' = "done"
                       /\ index' = r.index
                       /\ UNCHANGED <<format, buffer, littleEndian, result, err, calls,
                                      logical>>

NextGif == GifParseHeader \/ GifParseImage \/ GifSkipTrailer

SpecGif == InitGif /\ [][NextGif]_vars

(***************************************************************************)
(* ExifParser.parse over TIFF inputs.  An input is laid out from a logical *)
(* content: a root IFD, and optionally an EXIF and a GPS sub-IFD the root  *)
(* points to, each a list of fields with their values, written in the      *)
(* byte order the header declares.                                         *)
(***************************************************************************)

MaxExifFields == 2

LogicalField(tag, type, values) == [tag |-> tag, type |-> type, values |-> values]

\* bytes per number written: a rational is two 4-byte numbers
ElementWidth(type) ==
    CASE type \in {1, 2, 7} -> 1
      [] type = 3 -> 2
      [] OTHER -> 4

LogicalCount(f) == IF f.type \in {5, 10} THEN Len(f.values) \div 2 ELSE Len(f.values)

\* v < 65536 in w bytes
EncodeInt(v, w, le) ==
    LET be == CASE w = 1 -> <<v>>
                [] w = 2 -> <<v \div 256, v % 256>>
                [] w = 4 -> <<0, 0, v \div 256, v % 256>>
    IN  IF le THEN [i \in 1 .. w |-> be[w + 1 - i]] ELSE be

ValueBytes(f, le) ==
    Concat([i \in 1 .. Len(f.values) |-> EncodeInt(f.values[i], ElementWidth(f.type), le)])

\* a value of at most 4 bytes lies left-justified in the value field
Pad4(bytes) == bytes \o [i \in 1 .. 4 - Len(bytes) |-> 0]

\* the 12-byte entries of fields; values of more than 4 bytes lie from dataAt on
RECURSIVE EncodeEntries(_, _, _)
EncodeEntries(fields, dataAt, le) ==
    IF fields = <<>> THEN <<>>
    ELSE LET f == Head(fields)
             bytes == ValueBytes(f, le)
             inline == Len(bytes) <= 4
         IN  EncodeInt(f.tag, 2, le) \o EncodeInt(f.type, 2, le)
             \o EncodeInt(LogicalCount(f), 4, le)
             \o (IF inline THEN Pad4(bytes) ELSE EncodeInt(dataAt, 4, le))
             \o EncodeEntries(Tail(fields), IF inline THEN dataAt ELSE dataAt + Len(bytes), le)

RECURSIVE EncodeData(_, _)
EncodeData(fields, le) ==
    IF fields = <<>> THEN <<>>
    ELSE (IF Len(ValueBytes(Head(fields), le)) <= 4 THEN <<>>
          ELSE ValueBytes(Head(fields), le))
         \o EncodeData(Tail(fields), le)

\* an IFD placed at offset `at`, followed by its out-of-line values
EncodeIfd(fields, at, le) ==
    EncodeInt(Len(fields), 2, le)
    \o EncodeEntries(fields, at + 2 + 12 * Len(fields) + 4, le)
    \o <<0, 0, 0, 0>>
    \o EncodeData(fields, le)

TiffHeader(le) ==
    (IF le THEN <<73, 73>> ELSE <<77, 77>>) \o EncodeInt(42, 2, le) \o EncodeInt(8, 4, le)

Content(root, hasExif, exif, hasGps, gps) ==
    [root |-> root, hasExif |-> hasExif, exif |-> exif, hasGps |-> hasGps, gps |-> gps]

EncodeTiff(c, le) ==
    LET pointers == (IF c.hasExif THEN 1 ELSE 0) + (IF c.hasGps THEN 1 ELSE 0)
        exifAt == 8 + 2 + 12 * (Len(c.root) + pointers) + 4 + Len(EncodeData(c.root, le))
        exifIfd == IF c.hasExif THEN EncodeIfd(c.exif, exifAt, le) ELSE <<>>
        gpsAt == exifAt + Len(exifIfd)
        root == c.root
                \o (IF c.hasExif THEN <<LogicalField(EXIF_TAG, 4, <<exifAt>>)>> ELSE <<>>)
                \o (IF c.hasGps THEN <<LogicalField(GPS_TAG, 4, <<gpsAt>>)>> ELSE <<>>)
    IN  TiffHeader(le) \o EncodeIfd(root, 8, le) \o exifIfd
        \o (IF c.hasGps THEN EncodeIfd(c.gps, gpsAt, le) ELSE <<>>)

LogicalFields ==
    {LogicalField(274, 3, <<6>>),
     LogicalField(258, 3, <<8, 40000>>),
     LogicalField(1, 1, <<200, 7>>),
     LogicalField(2, 2, <<65, 66, 67, 68, 0>>),
     LogicalField(256, 4, <<640>>),
     LogicalField(33434, 5, <<1, 250>>),
     LogicalField(37380, 10, <<1, 3>>)}

ExifContents ==
    {Content(root, FALSE, <<>>, FALSE, <<>>) : root \in SeqsUpTo(LogicalFields, MaxExifFields)}
    \cup {Content(root, TRUE, exif, hasGps, gps) :
            root \in SeqsUpTo(LogicalFields, 1),
            exif \in {<<>>, <<LogicalField(33434, 5, <<1, 250>>)>>,
                      <<LogicalField(GPS_TAG, 4, <<8>>)>>},
            hasGps \in BOOLEAN,
            gps \in {<<LogicalField(1, 2, <<78, 0>>)>>}}
    \cup {Content(<<>>, FALSE, <<>>, TRUE, gps) :
            gps \in {<<>>, <<LogicalField(2, 5, <<51, 1, 30, 1, 0, 1>>)>>}}

Encoded(c, le) == [known |-> TRUE, content |-> c, le |-> le]

\* inputs that are not the layout of a content: truncated ones, a field of
\* type 6, a count of 0 and a count far beyond the buffer
ExifRawInputs ==
    {<<>>, <<77, 77>>, <<77, 77, 0, 42, 0, 0, 0, 8>>,
     TiffHeader(FALSE) \o <<0, 1>> \o <<1, 0, 0, 6, 0, 0, 0, 1, 0, 0, 0, 0>> \o <<0, 0, 0, 0>>,
     TiffHeader(FALSE) \o <<0, 1>> \o <<1, 0, 0, 5, 0, 0, 0, 0, 0, 0, 0, 0>> \o <<0, 0, 0, 0>>,
     TiffHeader(FALSE) \o <<0, 1>> \o <<1, 0, 0, 1, 0, 0, 0, 0, 255, 2, 3, 4>> \o <<0, 0, 0, 0>>,
     TiffHeader(FALSE) \o <<0, 1>> \o <<1, 0, 0, 3, 255, 0, 0, 0, 0, 0, 0, 8>> \o <<0, 0, 0, 0>>,
     TiffHeader(FALSE) \o <<0, 1>> \o <<1, 0, 0, 9, 0, 0, 0, 1, 255, 255, 255, 254>>}

InitExif ==
    /\ format = "exif"
    /\ \/ \E c \in ExifContents, le \in BOOLEAN :
              buffer = EncodeTiff(c, le) /\ logical = Encoded(c, le)
       \/ buffer \in ExifRawInputs /\ logical = [known |-> FALSE]
    /\ littleEndian = FALSE
    /\ index = 0
    /\ pc = "start"
    /\ result = NoResult
    /\ err = "none"
    /\ calls = NoCalls

ExifReadTiffHeader ==
    /\ format = "exif" /\ pc = "start"
    /\ LET header == readTiffHeader(buffer, index, littleEndian)
       IN  IF header.err # "none" THEN Fail(header.err, header.index)
           ELSE /\ pc' = "root"
                /\ index' = IndexOf(header.val.ifdOffset)
                /\ UNCHANGED <<format, buffer, littleEndian, result, err, calls, logical>>

ExifReadRootIfd ==
    /\ format = "exif" /\ pc = "root"
    /\ LET ifd == readIfd(buffer, index, littleEndian)
       IN  IF ifd.err # "none" THEN Fail(ifd.err, ifd.index)
           ELSE /\ pc' = "exif"
                /\ index' = ifd.index
                /\ result' = [fields |-> ifd.val.fields]
                /\ UNCHANGED <<format, buffer, littleEndian, err, calls, logical>>

ExifFollowExifIfd ==
    /\ format = "exif" /\ pc = "exif"
    /\ LET fields == followIfd(buffer, index, littleEndian, result.fields, EXIF_TAG)
       IN  IF fields.err # "none" THEN Fail(fields.err, fields.index)
           ELSE /\ pc' = "gps"
                /\ index' = fields.index
                /\ result' = [fields |-> fields.val]
                /\ UNCHANGED <<format, buffer, littleEndian, err, calls, logical>>

\* the last step of parse: the record is returned
ExifFollowGpsIfd ==
    /\ format = "exif" /\ pc = "gps"
    /\ LET fields == followIfd(buffer, index, littleEndian, result.fields, GPS_TAG)
       IN  IF fields.err # "none" THEN Fail(fields.err, fields.index)
           ELSE /\ pc' = "done"
                /\ index' = fields.index
                /\ result' = [fields |-> fields.val]
                /\ UNCHANGED <<format, buffer, littleEndian, err, calls, logical>>

NextExif == ExifReadTiffHeader \/ ExifReadRootIfd \/ ExifFollowExifIfd \/ ExifFollowGpsIfd

SpecExif == InitExif /\ [][NextExif]_vars

(***************************************************************************)
(* readFieldValue on its own: one call on a field of any type and count,   *)
(* with the cursor anywhere in the buffer                                  *)
(***************************************************************************)

MaxFieldCount == 5

FieldTypes == {1, 2, 3, 4, 5, 6, 7, 9, 10}

FieldInputs ==
    {ExifField(1, type, Num(0, count), valueOffset, Null) :
        type \in FieldTypes,
        count \in 0 .. MaxFieldCount,
        valueOffset \in {Num(0, 0), Num(0, 2), Num(33000, 513), Num(65535, 65535)}}

InitField ==
    /\ format = "exifField"
    /\ buffer \in {<<>>, <<0, 0, 0, 1, 0, 0, 0, 250, 7, 7>>}
    /\ littleEndian = FALSE
    /\ index \in {0, Len(buffer)}
    /\ pc = "start"
    /\ result = NoResult
    /\ err = "none"
    /\ calls = NoCalls
    /\ logical \in FieldInputs

CallReadFieldValue ==
    /\ format = "exifField" /\ pc = "start"
    /\ LET ret == readFieldValue(buffer, index, littleEndian, logical)
       IN  /\ calls' = Append(calls, Call("readFieldValue", logical, index, ret))
           /\ index' = ret.index
           /\ err' = ret.err
           /\ pc' = IF ret.err = "none" THEN "done" ELSE "failed"
    /\ UNCHANGED <<format, buffer, littleEndian, result, logical>>

SpecField == InitField /\ [][CallReadFieldValue]_vars

(***************************************************************************)
(* ZipParser.parse over archives laid out as: leading bytes, central       *)
(* directory file headers, end-of-central-directory record, trailing bytes *)
(***************************************************************************)

MaxZipEntries == 2

ZipFileHeaderBytes(name, comment) ==
    CENTRAL_DIRECTORY_FILE_SIGNATURE
    \o <<3, 20, 20, 0, 0, 0, 8, 0>> \o <<0, 0, 33, 0>> \o <<1, 2, 3, 4>>
    \o <<5, 0, 0, 0>> \o <<5, 0, 0, 0>>
    \o EncodeInt(Len(name), 2, TRUE) \o <<0, 0>> \o EncodeInt(Len(comment), 2, TRUE)
    \o <<0, 0>> \o <<0, 0>> \o <<0, 0, 0, 0>> \o <<0, 0, 0, 0>>
    \o name \o comment

ZipEndBytes(entries, size, offset, commentLen) ==
    END_CENTRAL_DIRECTORY_SIGNATURE
    \o <<0, 0, 0, 0>> \o EncodeInt(entries, 2, TRUE) \o EncodeInt(entries, 2, TRUE)
    \o EncodeInt(size, 4, TRUE) \o EncodeInt(offset, 4, TRUE)
    \o EncodeInt(commentLen, 2, TRUE)

ZipFileHeaders == {ZipFileHeaderBytes(<<97>>, <<>>), ZipFileHeaderBytes(<<97, 98>>, <<99>>)}

ZipInputs ==
    {leading \o Concat(headers)
     \o ZipEndBytes(Len(headers), Len(Concat(headers)), offset, Len(comment) + more)
     \o comment \o trailing :
        leading \in {<<>>, <<0>>, <<80, 75, 3, 4, 0, 0>>},
        headers \in SeqsUpTo(ZipFileHeaders, MaxZipEntries),
        offset \in {0, 1, 6, 300},
        comment \in {<<>>, <<65>>},
        more \in {0, 1},
        trailing \in {<<>>, <<0>>, END_CENTRAL_DIRECTORY_SIGNATURE}}
    \cup {<<>>, <<80>>, END_CENTRAL_DIRECTORY_SIGNATURE,
          <<0>> \o END_CENTRAL_DIRECTORY_SIGNATURE,
          <<0>> \o END_CENTRAL_DIRECTORY_SIGNATURE \o <<0>>,
          <<0>> \o ZipEndBytes(0, 0, 23, 4) \o CENTRAL_DIRECTORY_FILE_SIGNATURE,
          <<0>> \o ZipFileHeaderBytes(<<97>>, <<>>) \o ZipEndBytes(1, 47, 1, 4)
                \o CENTRAL_DIRECTORY_FILE_SIGNATURE,
          <<0, 0, 0, 0, 0, 0, 0, 0, 0, 0, 0, 0, 0, 0, 0, 0, 0, 0, 0, 0, 0, 0>>}

InitZip == Start("zip", ZipInputs, TRUE)

\* parseEndOfCentralDirectory, and the seek to the directory that
\* readCentralDirectoryFileHeaders starts with
ZipParseEndOfCentralDirectory ==
    /\ format = "zip" /\ pc = "start"
    /\ LET end == parseEndOfCentralDirectory(buffer, index, littleEndian)
       IN  IF end.err # "none" THEN Fail(end.err, end.index)
           ELSE /\ pc' = "headers"
                /\ index' = IndexOf(end.val.central_dir_offset)
                /\ result' = [fileHeaders |-> <<>>, end |-> end.val]
                /\ UNCHANGED <<format, buffer, littleEndian, err, calls, logical>>

\* an iteration of the loop: the signature is there
ZipReadFileHeader ==
    /\ format = "zip" /\ pc = "headers"
    /\ LET found == consumeIfEquals(buffer, index, CENTRAL_DIRECTORY_FILE_SIGNATURE)
       IN  /\ found.val
           /\ LET header == readCentralDirectoryFileHeader(buffer, found.index, littleEndian)
              IN  IF header.err # "none" THEN Fail(header.err, header.index)
                  ELSE /\ index' = header.index
                       /\ result' = [result EXCEPT !.fileHeaders = Append(@, header.val)]
                       /\ UNCHANGED <<format, buffer, littleEndian, pc, err, calls,
                                      logical>>

\* the signature is not there: the loop ends and parse returns
ZipReturn ==
    /\ format = "zip" /\ pc = "headers"
    /\ ~consumeIfEquals(buffer, index, CENTRAL_DIRECTORY_FILE_SIGNATURE).val
    /\ pc' = "done"
    /\ UNCHANGED <<format, buffer, littleEndian, index, result, err, calls, logical>>

NextZip == ZipParseEndOfCentralDirectory \/ ZipReadFileHeader \/ ZipReturn

SpecZip == InitZip /\ [][NextZip]_vars

(***************************************************************************)
(* BmpParser.parse over bitmaps laid out as: file header, DIB header,      *)
(* palette bytes, pixel bytes                                              *)
(***************************************************************************)

MaxBmpColors == 2

BM == <<66, 77>>

BmpHeaderBytes(signature, dataOffset) ==
    signature \o <<0, 0, 0, 0>> \o <<0, 0, 0, 0>> \o EncodeInt(dataOffset, 4, TRUE)

\* width 1, height -1 (top-down), one plane
BmpInfoBytes(size, bitsPerPixel, colorsUsed) ==
    EncodeInt(size, 4, TRUE) \o <<1, 0, 0, 0>> \o <<255, 255, 255, 255>> \o <<1, 0>>
    \o EncodeInt(bitsPerPixel, 2, TRUE) \o <<0, 0, 0, 0>> \o <<0, 0, 0, 0>>
    \o <<19, 11, 0, 0>> \o <<19, 11, 0, 0>> \o EncodeInt(colorsUsed, 4, TRUE)
    \o <<0, 0, 0, 0>>

\* the 84 bytes a V5 header has after the info header's fields
BmpV5Tail == [i \in 1 .. 84 |-> IF i \in 17 .. 20 THEN <<66, 71, 82, 115>>[i - 16] ELSE 0]

BmpPalettes == {Concat([i \in 1 .. n |-> <<10 * i, 20, 30, 0>>]) : n \in 0 .. MaxBmpColors}

BmpInputs ==
    {BmpHeaderBytes(signature, dataOffset) \o BmpInfoBytes(40, bitsPerPixel, colorsUsed)
     \o palette \o pixels :
        signature \in {BM, <<0, 0>>},
        dataOffset \in {0, 54, 58, 200},
        bitsPerPixel \in {4, 8, 24},
        colorsUsed \in 0 .. MaxBmpColors,
        palette \in BmpPalettes,
        pixels \in {<<>>, <<1, 2, 3, 0>>}}
    \cup {BmpHeaderBytes(signature, 138) \o BmpInfoBytes(124, bitsPerPixel, 0) \o tail :
            signature \in {BM, <<66, 65>>},
            bitsPerPixel \in {8, 24},
            tail \in {BmpV5Tail, BmpV5Tail \o <<7>>, SubSeq(BmpV5Tail, 1, 83)}}
    \cup {<<>>, <<66>>, BM, BM \o <<0, 0, 0, 0>>, BmpHeaderBytes(BM, 14),
          BmpHeaderBytes(BM, 14) \o <<12, 0, 0, 0>>,
          BmpHeaderBytes(BM, 54) \o BmpInfoBytes(40, 8, 0) \o <<255, 255, 255, 255>>,
          BmpHeaderBytes(BM, 58) \o BmpInfoBytes(108, 8, 1) \o <<10, 20, 30, 0>>,
          BmpHeaderBytes(BM, 54) \o BmpInfoBytes(12, 24, 0)}

InitBmp == Start("bmp", BmpInputs, TRUE)

BmpParseHeader ==
    /\ format = "bmp" /\ pc = "start"
    /\ LET header == parseHeader(buffer, index, littleEndian)
       IN  IF header.err # "none" THEN Fail(header.err, header.index)
           ELSE /\ pc' = "dib"
                /\ index' = header.index
                /\ result' = [header |-> header.val]
                /\ UNCHANGED <<format, buffer, littleEndian, err, calls, logical>>

BmpParseDibHeader ==
    /\ format = "bmp" /\ pc = "dib"
    /\ LET dib == parseDibHeader(buffer, index, littleEndian)
       IN  IF dib.err # "none" THEN Fail(dib.err, dib.index)
           ELSE /\ pc' = "pixels"
                /\ index' = dib.index
                /\ result' = [header |-> result.header, dib |-> dib.val]
                /\ UNCHANGED <<format, buffer, littleEndian, err, calls, logical>>

BmpParsePixels ==
    /\ format = "bmp" /\ pc = "pixels"
    /\ LET bmp == parsePixels(buffer, index, result.header, result.dib)
       IN  IF bmp.err # "none" THEN Fail(bmp.err, bmp.index)
           ELSE /\ pc' = "done"
                /\ index' = bmp.index
                /\ result' = bmp.val
                /\ UNCHANGED <<format, buffer, littleEndian, err, calls, logical>>

NextBmp == BmpParseHeader \/ BmpParseDibHeader \/ BmpParsePixels

SpecBmp == InitBmp /\ [][NextBmp]_vars

(***************************************************************************)
(* The ICC parse over profiles laid out as: 128-byte header, tag count,    *)
(* tag table, then 20 bytes of data per tag                                *)
(***************************************************************************)

MaxIccTags == 2

\* header and tag count of a profile of `size` bytes: version 4.2, class
\* mntr, color space RGB, intent 1
IccHeaderBytes(size, tagCount) ==
    EncodeInt(size, 4, FALSE) \o <<0, 0, 0, 0>> \o <<4, 32, 0, 0>>
    \o <<109, 110, 116, 114>> \o <<82, 71, 66, 32>> \o <<88, 89, 90, 32>>
    \o [i \in 1 .. 12 |-> 0] \o <<97, 99, 115, 112>> \o [i \in 1 .. 24 |-> 0]
    \o <<0, 0, 0, 1>> \o [i \in 1 .. 60 |-> 0] \o EncodeInt(tagCount, 4, FALSE)

IccTag(signature, at, data) == [signature |-> signature, at |-> at, data |-> data]

\* 20 bytes of tag data, of type desc, text, XYZ and mluc
IccDesc == <<100, 101, 115, 99, 0, 0, 0, 0, 0, 0, 0, 4, 115, 82, 71, 66, 0, 0, 0, 0>>
IccText == <<116, 101, 120, 116, 0, 0, 0, 0, 80, 68, 0, 0, 0, 0, 0, 0, 0, 0, 0, 0>>
IccXyz == <<88, 89, 90, 32, 0, 0, 0, 0, 0, 0, 246, 214, 0, 1, 0, 0, 255, 255, 211, 45>>
IccMluc == <<109, 108, 117, 99, 0, 0, 0, 0, 0, 0, 0, 1, 0, 0, 0, 12, 101, 110, 85, 83>>

\* "data": the tag's offset is where its data lies; "end": the length of
\* the buffer; "far": beyond the buffer
IccTags ==
    {IccTag(<<100, 101, 115, 99>>, "data", IccDesc),
     IccTag(<<99, 112, 114, 116>>, "data", IccText),
     IccTag(<<119, 116, 112, 116>>, "data", IccXyz),
     IccTag(<<100, 109, 100, 100>>, "data", IccMluc),
     IccTag(<<100, 101, 115, 99>>, "end", IccDesc),
     IccTag(<<119, 116, 112, 116>>, "far", IccXyz),
     IccTag(<<97, 98, 99, 100>>, "far", IccDesc),
     IccTag(<<100, 101, 115, 99>>, "data", [IccDesc EXCEPT ![12] = 21]),
     IccTag(<<118, 117, 101, 100>>, "data", [IccMluc EXCEPT ![16] = 0])}

IccBytes(tags, declared) ==
    LET size == 132 + 32 * Len(tags)
    IN  IccHeaderBytes(size, declared)
        \o Concat([k \in 1 .. Len(tags) |->
               tags[k].signature
               \o EncodeInt(CASE tags[k].at = "data" -> 132 + 12 * Len(tags) + 20 * (k - 1)
                              [] tags[k].at = "end" -> size
                              [] tags[k].at = "far" -> 60000, 4, FALSE)
               \o <<0, 0, 0, 20>>])
        \o Concat([k \in 1 .. Len(tags) |-> tags[k].data])

IccInputs ==
    {IccBytes(tags, Len(tags) + more) :
        tags \in SeqsUpTo(IccTags, MaxIccTags), more \in {0, 1}}
    \cup {<<>>, <<0, 0, 0, 4>>, <<0, 0, 0, 9>>, <<0, 0>>,
          EncodeInt(40, 4, FALSE) \o SubSeq(IccHeaderBytes(40, 0), 5, 40),
          EncodeInt(128, 4, FALSE) \o SubSeq(IccHeaderBytes(128, 0), 5, 128)}

InitIcc == Start("icc", IccInputs, FALSE)

\* index holds tagHeaderOffset
IccParseHeader ==
    /\ format = "icc" /\ pc = "start"
    /\ LET header == iccHeader(buffer)
       IN  IF header.err # "none" THEN Fail(header.err, header.index)
           ELSE /\ pc' = "tags"
                /\ index' = header.index
                /\ result' = header.val
                /\ UNCHANGED <<format, buffer, littleEndian, err, calls, logical>>

IccParseTag ==
    /\ format = "icc" /\ pc = "tags"
    /\ result.i < IndexOf(result.tagCount)
    /\ index < Len(buffer)
    /\ LET tag == iccTag(buffer, index, result)
       IN  IF tag.err # "none" THEN Fail(tag.err, tag.index)
           ELSE /\ index' = tag.index
                /\ result' = tag.val
                /\ UNCHANGED <<format, buffer, littleEndian, pc, err, calls, logical>>

\* The loop is over.  Once tagHeaderOffset is at or past the end of the
\* buffer every remaining iteration finds an empty signature and does
\* nothing, so the return is taken from there.
IccReturn ==
    /\ format = "icc" /\ pc = "tags"
    /\ ~(result.i < IndexOf(result.tagCount) /\ index < Len(buffer))
    /\ pc' = "done"
    /\ UNCHANGED <<format, buffer, littleEndian, index, result, err, calls, logical>>

NextIcc == IccParseHeader \/ IccParseTag \/ IccReturn

SpecIcc == InitIcc /\ [][NextIcc]_vars

(***************************************************************************)
(* Any of the six entry points over any of its inputs                      *)
(***************************************************************************)

InitEntry == InitPng \/ InitGif \/ InitBmp \/ InitZip \/ InitExif \/ InitIcc

NextEntry == NextPng \/ NextGif \/ NextBmp \/ NextZip \/ NextExif \/ NextIcc

SpecEntry == InitEntry /\ [][NextEntry]_vars

(***************************************************************************)
(* The bit cursor on its own: a BitParser over a small buffer, and up to   *)
(* MaxBitCalls method calls on it.                                         *)
(***************************************************************************)
MaxBitCalls == 2

MaxBitBytes == 5

BitBytes == {0, 1, 255}

BitCounts == {0, 1, 3, 8, 12, 16, 20, 31, 32}

\* new BitParser(buffer, cursor)
InitBit ==
    /\ format = "bits"
    /\ buffer \in {b \in SeqsUpTo(BitBytes, MaxBitBytes) : Len(b) \in {0, 1, 4, MaxBitBytes}}
    /\ littleEndian = TRUE
    /\ index \in {0, 3}
    /\ pc = "ready"
    /\ result = NoResult
    /\ err = "none"
    /\ calls = NoCalls
    /\ logical = NoLogical

CallReadBit ==
    /\ format = "bits"
    /\ Len(calls) < MaxBitCalls
    /\ LET ret == readBit(buffer, index)
       IN  /\ index' = ret.index
           /\ err' = ret.err
           /\ calls' = Append(calls, Call("readBit", Null, index, ret))
    /\ UNCHANGED <<format, buffer, littleEndian, pc, result, logical>>

CallReadNBits ==
    /\ format = "bits"
    /\ Len(calls) < MaxBitCalls
    /\ \E bits \in BitCounts :
          LET ret == readNBits(buffer, index, bits)
          IN  /\ index' = ret.index
              /\ err' = ret.err
              /\ calls' = Append(calls, Call("readNBits", bits, index, ret))
    /\ UNCHANGED <<format, buffer, littleEndian, pc, result, logical>>

CallBitAtEnd ==
    /\ format = "bits"
    /\ Len(calls) < MaxBitCalls
    /\ LET ret == bitAtEnd(buffer, index)
       IN  /\ index' = ret.index
           /\ err' = ret.err
           /\ calls' = Append(calls, Call("atEnd", Null, index, ret))
    /\ UNCHANGED <<format, buffer, littleEndian, pc, result, logical>>

NextBit ==
    \/ CallReadBit
    \/ CallReadNBits
    \/ CallBitAtEnd

SpecBit == InitBit /\ [][NextBit]_vars

(***************************************************************************)
(* Inputs of decode(): code streams packed the way a GIF encoder packs     *)
(* them (each code at the width in force, least significant bit first,     *)
(* zero bits up to the byte boundary), and arbitrary bytes.                *)
(***************************************************************************)
MaxLzwCodes == 6

LzwMinCodeSizes == {2, 3}

\* the codes a stream is drawn from: indices, clear, and the first two entries
\* a table gains
LzwCodes(minCodeSize) ==
    LET clear == Pow2(minCodeSize)
    IN  {0, clear - 1, clear, clear + 2, clear + 3}

\* clear, up to MaxLzwCodes - 2 codes, end
LzwCodeStreams(minCodeSize) ==
    {<<Pow2(minCodeSize)>> \o mid \o <<Pow2(minCodeSize) + 1>> :
        mid \in SeqsUpTo(LzwCodes(minCodeSize), MaxLzwCodes - 2)}

\* the bits of the codes from codes[i] on; len is the table length and fresh
\* says that no code followed the last clear
RECURSIVE PackCodes(_, _, _, _, _, _)
PackCodes(codes, i, minCodeSize, len, width, fresh) ==
    IF i > Len(codes) THEN <<>>
    ELSE LET c == codes[i]
             bits == [k \in 1 .. width |-> (c \div Pow2(k - 1)) % 2]
             grown == IF len + 1 = Pow2(width) /\ width < MAX_LWZ_CODE_WIDTH
                      THEN width + 1 ELSE width
         IN  bits \o
             (IF c = Pow2(minCodeSize)
              THEN PackCodes(codes, i + 1, minCodeSize, c + 2, minCodeSize + 1, TRUE)
              ELSE IF fresh
              THEN PackCodes(codes, i + 1, minCodeSize, len, width, FALSE)
              ELSE PackCodes(codes, i + 1, minCodeSize, len + 1, grown, FALSE))

\* bits to bytes, the last byte filled with zero bits
BitsToBytes(bits) ==
    [j \in 1 .. (Len(bits) + 7) \div 8 |->
        LET RECURSIVE byte(_)
            byte(k) == IF k = 8 THEN 0
                       ELSE (IF 8 * (j - 1) + k + 1 <= Len(bits)
                             THEN bits[8 * (j - 1) + k + 1] ELSE 0) + 2 * byte(k + 1)
        IN  byte(0)]

EncodeLzw(codes, minCodeSize) ==
    BitsToBytes(PackCodes(codes, 1, minCodeSize, Pow2(minCodeSize) + 2, minCodeSize + 1, TRUE))

\* what follows the padded stream in image.data
LzwTails == {<<>>, <<0, 0, 0, 0, 0>>, <<0, 0, 0, 0, 128>>}

LzwRawBytes == {0, 1, 88, 108}

LzwRawInputs ==
    SeqsUpTo(LzwRawBytes, 2)
    \cup {<<4, 1, 6, 0>>, <<68, 52, 5>>, <<0, 16, 0, 1, 0>>, <<0, 16, 0, 32, 0>>}

\* the min code sizes of the images with arbitrary data: 12 gives a width
\* above MAX_LWZ_CODE_WIDTH
LzwRawMinCodeSizes == LzwMinCodeSizes \cup {0, 12}

\* new GifImageDecoder(gif, image), before decode()
InitLzw ==
    /\ format = "lzw"
    /\ littleEndian = TRUE
    /\ index = 0
    /\ pc = "start"
    /\ err = "none"
    /\ calls = NoCalls
    /\ \/ /\ result \in {GifImageDecoder(m, TRUE) : m \in LzwMinCodeSizes}
          /\ logical \in {[known |-> TRUE, codes |-> s] : s \in LzwCodeStreams(result.minCodeSize)}
          /\ buffer \in {EncodeLzw(logical.codes, result.minCodeSize) \o t : t \in LzwTails}
       \/ /\ result \in {GifImageDecoder(m, g) : m \in LzwRawMinCodeSizes, g \in BOOLEAN}
          /\ logical = [known |-> FALSE, codes |-> <<>>]
          /\ buffer \in LzwRawInputs

(***************************************************************************)
(* decode() of one GifImageDecoder: buffer is image.data, index the cursor *)
(* of its BitParser (in bits), result the decoder's fields and the locals  *)
(* of decode(); one action per iteration of the code loop.                 *)
(***************************************************************************)
\* the exception leaves decode(): no index stream is returned
LzwFail(kind, idx) ==
    /\ pc' = "failed"
    /\ err' = kind
    /\ index' = idx
    /\ result' = GifImageDecoder(result.minCodeSize, result.globalColorTable)
    /\ UNCHANGED <<format, buffer, littleEndian, calls, logical>>

\* the next code is read at the width the iteration ends with
LzwContinue(st, read) ==
    IF read.err # "none" THEN LzwFail(read.err, read.index)
    ELSE /\ result' = [st EXCEPT !.code = read.val]
         /\ index' = read.index
         /\ UNCHANGED <<format, buffer, littleEndian, pc, err, calls, logical>>

\* up to the first read: no table and no bitmap return [], else the first
\* code read is the clear code
LzwStart ==
    /\ format = "lzw" /\ pc = "start"
    /\ IF ~result.globalColorTable \/ Len(buffer) = 0
       THEN /\ pc' = "done"
            /\ UNCHANGED <<format, buffer, littleEndian, index, result, err, calls, logical>>
       ELSE LET clearCode == nextCode(buffer, index, result.width)
            IN  IF clearCode.err # "none" THEN LzwFail(clearCode.err, clearCode.index)
                ELSE /\ pc' = "loop"
                     /\ index' = clearCode.index
                     /\ result' = [result EXCEPT !.clearCode = clearCode.val,
                                                 !.endCode = clearCode.val + 1,
                                                 !.code = clearCode.val]
                     /\ UNCHANGED <<format, buffer, littleEndian, err, calls, logical>>

\* code === clearCode: the table is rebuilt and the next code is pushed
LzwClear ==
    /\ format = "lzw" /\ pc = "loop"
    /\ result.code # result.endCode /\ result.code = result.clearCode
    /\ LET origWidth == result.minCodeSize + 1
           firstCode == nextCode(buffer, index, origWidth)
       IN  IF firstCode.err # "none" THEN LzwFail(firstCode.err, firstCode.index)
           ELSE LzwContinue([result EXCEPT
                                 !.codeTable = [i \in 1 .. result.endCode + 1 |-> <<i - 1>>],
                                 !.width = origWidth,
                                 !.indexStream = Append(@, firstCode.val),
                                 !.prevCode = firstCode.val],
                            nextCode(buffer, firstCode.index, origWidth))

\* any other code: codeTable[code], or codeTable[prevCode] and its first index
LzwCode ==
    /\ format = "lzw" /\ pc = "loop"
    /\ result.code # result.endCode /\ result.code # result.clearCode
    /\ IF ~(result.prevCode < Len(result.codeTable)) THEN LzwFail("TypeError", index)
       ELSE LET prev == result.codeTable[result.prevCode + 1]
                known == result.code < Len(result.codeTable)
                entry == IF known THEN Append(prev, result.codeTable[result.code + 1][1])
                         ELSE Append(prev, prev[1])
                out == IF known THEN result.codeTable[result.code + 1] ELSE entry
                width == IF Len(result.codeTable) + 1 = Pow2(result.width)
                         THEN result.width + 1 ELSE result.width
            IN  LzwContinue([result EXCEPT !.codeTable = Append(@, entry),
                                           !.indexStream = @ \o out,
                                           !.width = width,
                                           !.prevCode = result.code],
                            nextCode(buffer, index, width))

\* code === endCode: atEnd() decides between the return and the throw
LzwEnd ==
    /\ format = "lzw" /\ pc = "loop"
    /\ result.code = result.endCode
    /\ LET end == bitAtEnd(buffer, index)
       IN  /\ calls' = Append(calls, Call("atEnd", Null, index, end))
           /\ IF end.err # "none" \/ ~end.val
              THEN /\ pc' = "failed"
                   /\ err' = IF end.err # "none" THEN end.err ELSE "end code not at end"
                   /\ index' = end.index
                   /\ result' = GifImageDecoder(result.minCodeSize, result.globalColorTable)
                   /\ UNCHANGED <<format, buffer, littleEndian, logical>>
              ELSE /\ pc' = "done"
                   /\ index' = end.index
                   /\ UNCHANGED <<format, buffer, littleEndian, result, err, logical>>

NextLzw == LzwStart \/ LzwClear \/ LzwCode \/ LzwEnd

SpecLzw == InitLzw /\ [][NextLzw]_vars

\* the decoders of SpecLzw on arbitrary data and on the packed streams of
\* min code size 2 that end with their padding
InitLzwLive ==
    /\ InitLzw
    /\ logical.known
       => /\ result.minCodeSize = 2
          /\ buffer = EncodeLzw(logical.codes, result.minCodeSize)

\* decode() runs to its return or its throw: nothing suspends it
SpecLzwLive == InitLzwLive /\ [][NextLzw]_vars /\ WF_vars(NextLzw)

(***************************************************************************)
(* GifParser.parseSubBlocks on its own: a sub-block stream at the cursor,  *)
(* whole or cut short.                                                     *)
(***************************************************************************)
MaxSubBlocks == 3

SubBlockData == {<<7>>, <<1, 0>>, <<0, 9, 0>>}

\* L1, d1, ..., Lk, dk
EncodeSubBlocks(blocks) == Concat([k \in 1 .. Len(blocks) |-> <<Len(blocks[k])>> \o blocks[k]])

\* the stream that `blocks` was written as: with its terminating zero and
\* whatever follows it, or ending `cut` bytes before the terminator
SubBlockStream(blocks, terminated, cut) ==
    [blocks |-> blocks, terminated |-> terminated, cut |-> cut]

InitSubBlocks ==
    /\ format = "subBlocks"
    /\ logical \in {SubBlockStream(blocks, terminated, cut) :
                       blocks \in SeqsUpTo(SubBlockData, MaxSubBlocks),
                       terminated \in BOOLEAN, cut \in {0, 1}}
    /\ \E before \in {<<>>, <<44>>}, after \in {<<>>, <<59>>} :
          /\ index = Len(before)
          /\ buffer =
                before \o
                (IF logical.terminated
                 THEN EncodeSubBlocks(logical.blocks) \o <<0>>
                      \o (IF logical.cut = 1 THEN after ELSE <<>>)
                 ELSE SubSeq(EncodeSubBlocks(logical.blocks), 1,
                             IF Len(EncodeSubBlocks(logical.blocks)) > logical.cut
                             THEN Len(EncodeSubBlocks(logical.blocks)) - logical.cut
                             ELSE 0))
    /\ littleEndian = TRUE
    /\ pc = "start"
    /\ result = NoResult
    /\ err = "none"
    /\ calls = NoCalls

CallParseSubBlocks ==
    /\ format = "subBlocks" /\ pc = "start"
    /\ LET ret == parseSubBlocks(buffer, index)
       IN  /\ calls' = Append(calls, Call("parseSubBlocks", Null, index, ret))
           /\ index' = ret.index
           /\ err' = ret.err
           /\ pc' = IF ret.err = "none" THEN "done" ELSE "failed"
    /\ UNCHANGED <<format, buffer, littleEndian, result, logical>>

SpecSubBlocks == InitSubBlocks /\ [][CallParseSubBlocks]_vars

(***************************************************************************)
(* Claims about the cursor                                                 *)
(***************************************************************************)

\* the bytes of bs lie inside the buffer at offset i and equal it
MatchesAt(buf, i, bs) ==
    /\ i + Len(bs) <= Len(buf)
    /\ \A k \in 0 .. Len(bs) - 1 : ByteAt(buf, i + k) = bs[k + 1]

\* C9: consumeIfEquals(bs) advances index by |bs| and returns true when the
\* |bs| bytes at index lie inside the buffer (index + |bs| = len included) and
\* equal bs; otherwise it returns false and leaves index unchanged.
C9_ConsumeIfEqualsExact ==
    \A k \in DOMAIN calls :
        calls[k].op = "consumeIfEquals" =>
            /\ calls[k].ret.err = "none"
            /\ IF MatchesAt(buffer, calls[k].before, calls[k].arg)
               THEN calls[k].ret.val = TRUE /\ index = calls[k].before + Len(calls[k].arg)
               ELSE calls[k].ret.val = FALSE /\ index = calls[k].before

\* C10: peek() returns the byte at index, index unchanged, when index < len,
\* and returns null without raising whenever index >= len.
C10_PeekNullAtOrPastEnd ==
    \A k \in DOMAIN calls :
        calls[k].op = "peek" =>
            /\ index = calls[k].before
            /\ calls[k].ret.err = "none"
            /\ IF calls[k].before < Len(buffer)
               THEN calls[k].ret.val = ByteAt(buffer, calls[k].before)
               ELSE calls[k].ret.val = Null

(***************************************************************************)
(* Claims about PngParser.parse                                            *)
(***************************************************************************)

SpanOk(s, len) == 0 <= s.start /\ s.start <= s.end /\ s.end <= len

IsSpanKind(kind) == kind \in {"NullTerminated", "Buffer"}

PngDone == format = "png" /\ pc = "done"

\* C1: when PngParser.parse succeeds, every span of the result (the header,
\* each chunk's rawData, each string or buffer span among a chunk's parsed
\* fields) satisfies 0 <= start <= end <= len(input).
C1_PngSpansWithinInput ==
    PngDone =>
        /\ SpanOk(result.header, Len(buffer))
        /\ \A i \in DOMAIN result.chunks :
              /\ SpanOk(result.chunks[i].rawData, Len(buffer))
              /\ \A k \in DOMAIN result.chunks[i].parsedData.fields :
                    LET f == result.chunks[i].parsedData.fields[k]
                    IN  IsSpanKind(f.kind) => SpanOk(f.value, Len(buffer))

Size(chunk) == chunk.rawData.end - chunk.rawData.start

RECURSIVE FramedSize(_)
FramedSize(chunks) ==
    IF chunks = <<>> THEN 0 ELSE 12 + Size(Head(chunks)) + FramedSize(Tail(chunks))

\* C2: when PngParser.parse succeeds the chunks tile the file: the header is
\* [0,8), each chunk's data starts 8 bytes after the previous chunk's CRC (at
\* 16 for the first), and the header, the data and 12 bytes of framing per
\* chunk add up to len(input).
C2_PngChunksTileInput ==
    PngDone =>
        /\ result.header = Span(0, 8)
        /\ \A i \in DOMAIN result.chunks :
              /\ result.chunks[i].rawData.start =
                    (IF i = 1 THEN 16 ELSE result.chunks[i - 1].rawData.end + 12)
              /\ result.chunks[i].rawData.start <= result.chunks[i].rawData.end
        /\ 8 + FramedSize(result.chunks) = Len(buffer)

C2_Witness ==
    /\ PngDone
    /\ Len(result.chunks) = 2
    /\ Size(result.chunks[1]) > 0
    /\ result.chunks[1].parsedData.defined

(***************************************************************************)
(* Claims about GifParser.parse                                            *)
(***************************************************************************)

GifDone == format = "gif" /\ pc = "done"

\* where the first block after the screen descriptor and color table starts
GifBlocksStart ==
    IF result.globalColorTable.isNull THEN result.logicalScreenDescriptor.span.end
    ELSE result.globalColorTable.span.end

\* C3: when GifParser.parse succeeds with at least one image, the byte at
\* images[last].span.end is the trailer 0x3B and it is the last byte of the
\* input; with no image the trailer directly follows the logical screen
\* descriptor / global color table and is the last byte.
C3_GifTrailerEndsInput ==
    GifDone =>
        LET e == IF result.images = <<>> THEN GifBlocksStart
                 ELSE result.images[Len(result.images)].span.end
        IN  /\ e = Len(buffer) - 1
            /\ ByteAt(buffer, e) = 59

C3_Witness ==
    /\ GifDone
    /\ Len(result.images) = 2
    /\ result.images[2].data # <<>>

(***************************************************************************)
(* Claims about the EXIF reader                                            *)
(***************************************************************************)

ExifEnded == format = "exif" /\ pc \in {"done", "failed"}

\* what a field list says, leaving out where the values lie in the file
FieldList(fields) ==
    [i \in 1 .. Len(fields) |->
        [tag |-> fields[i].tag, type |-> fields[i].type, count |-> fields[i].count,
         value |-> fields[i].value]]

\* C4: for any logical TIFF content, ExifParser.parse of its little-endian
\* encoding (marker II) returns the same field list (tag, type, count, value)
\* as ExifParser.parse of its big-endian encoding (marker MM).
C4_ExifEndiannessFollowsMarker ==
    (ExifEnded /\ logical.known /\ logical.le) =>
        LET other == parseExif(EncodeTiff(logical.content, FALSE), FALSE)
        IN  /\ (pc = "done") = (other.err = "none")
            /\ pc = "done" => FieldList(result.fields) = FieldList(other.val)

\* C5: readFieldValue on a field of a valid type with count * width <= 4
\* reads nothing from the buffer and never assigns the cursor index.
C5_ExifInlineNoSeekNoRead ==
    \A i \in 1 .. Len(calls) :
        (/\ calls[i].op = "readFieldValue"
         /\ fieldTypeSize(calls[i].arg.type) # 0
         /\ fieldSizeAtMost4(calls[i].arg)) =>
            /\ calls[i].ret.err = "none"
            /\ calls[i].ret.val.seeks = 0
            /\ calls[i].ret.val.reads = 0

(***************************************************************************)
(* Claims about the ZIP reader                                             *)
(***************************************************************************)

SignatureAt(buf, i) ==
    InBounds(buf, i, 4) /\ SubSeq(buf, i + 1, i + 4) = END_CENTRAL_DIRECTORY_SIGNATURE

\* a complete 22-byte end-of-central-directory record with an empty comment
\* is the tail of the buffer
EndRecordAtTail(buf) ==
    /\ Len(buf) >= 22
    /\ SignatureAt(buf, Len(buf) - 22)
    /\ getUint16(buf, Len(buf) - 2, TRUE) = 0

\* C8: when the end-of-central-directory signature starts at len - 22, for
\* every len >= 22, parseEndOfCentralDirectory locates it and reads the
\* record that follows it; `missing central directory` is thrown only when
\* no position of the buffer holds the signature.
C8_ZipEndRecordLocated ==
    (format = "zip" /\ pc # "start") =>
        /\ EndRecordAtTail(buffer) =>
              /\ err # "MissingCentralDirectory"
              /\ pc \in {"headers", "done"} =>
                    /\ result.end.comment = Span(Len(buffer), Len(buffer))
                    /\ result.end.central_dir_offset = getUint32(buffer, Len(buffer) - 6, TRUE)
                    /\ result.end.total_entires = getUint16(buffer, Len(buffer) - 12, TRUE)
        /\ err = "MissingCentralDirectory" =>
              \A i \in 0 .. Len(buffer) - 1 : ~SignatureAt(buffer, i)

(***************************************************************************)
(* Claims about the entry points                                           *)
(***************************************************************************)

\* a read that would exceed the buffer: getSpan's `unexpected EOF` and the
\* DataView's RangeError
EndOfInput == {"EOF", "RangeError"}

EmptyInputParsed == buffer = <<>> /\ pc # "start"

\* C6 (as stated): parsing a zero-byte input fails with the end-of-input
\* kind at every entry point: PNG, GIF, BMP, ZIP, EXIF and ICC.
C6_EmptyInputEndOfInput ==
    EmptyInputParsed => pc = "failed" /\ err \in EndOfInput

\* C6 (amended): parsing a zero-byte input fails at every entry point; the
\* failure is of the end-of-input kind for PNG, GIF, BMP, EXIF and ICC, and
\* is `missing central directory` for ZIP, whose reverse scan has no
\* position to try.
C6_EmptyInputFails ==
    EmptyInputParsed =>
        /\ pc = "failed"
        /\ format = "zip" => err = "MissingCentralDirectory"
        /\ format \in {"png", "gif", "bmp", "exif", "icc"} => err \in EndOfInput

C6_Witness == format = "zip" /\ buffer = <<>> /\ pc = "failed"

ParseEnded == pc \in {"done", "failed"}

StartsWith(buf, magic) == Len(buf) >= Len(magic) /\ SubSeq(buf, 1, Len(magic)) = magic

\* C7: a top-level magic mismatch is rejected and no record is returned:
\* PngParser.parse fails with BadSignature when the first 8 bytes are not the
\* PNG signature, GifParser.parse fails when the first 6 bytes are neither
\* GIF87a nor GIF89a, BmpParser.parse fails when the first 2 bytes are not BM.
C7_MagicMismatchRejected ==
    /\ (format = "png" /\ ParseEnded /\ Len(buffer) >= 8 /\ ~StartsWith(buffer, PngMagic))
           => pc = "failed" /\ err = "BadSignature"
    /\ (format = "gif" /\ ParseEnded /\ Len(buffer) >= 6
        /\ ~StartsWith(buffer, Gif87a) /\ ~StartsWith(buffer, Gif89a))
           => pc = "failed"
    /\ (format = "bmp" /\ ParseEnded /\ Len(buffer) >= 2 /\ ~StartsWith(buffer, BM))
           => pc = "failed"

(***************************************************************************)
(* Claims about the bit cursor                                             *)
(***************************************************************************)

\* c = a + b * 2^n over the integers, for the results a (of n bits), b and c
\* of readNBits, written without forming a number beyond 32 bits: a sum of
\* 2^31 or more is no value readNBits returns
ComposesTo(a, b, c, n) ==
    IF b = 0 THEN c = a
    ELSE IF n = 0 THEN a = 0 /\ c = b
    ELSE IF n >= 31 THEN FALSE
    ELSE c >= 0 /\ c % Pow2(n) = a /\ c \div Pow2(n) = b

\* C11: for n, m >= 0 with n + m <= 32, readNBits(n) returning a followed by
\* readNBits(m) returning b give the result of one readNBits(n + m) from the
\* same cursor: that call returns a + b * 2^n and ends at the same cursor.
C11_ReadNBitsComposes ==
    (/\ format = "bits"
     /\ Len(calls) = 2
     /\ calls[1].op = "readNBits" /\ calls[2].op = "readNBits"
     /\ calls[1].arg + calls[2].arg <= 32
     /\ calls[1].ret.err = "none" /\ calls[2].ret.err = "none")
    => LET whole == readNBits(buffer, calls[1].before, calls[1].arg + calls[2].arg)
       IN  /\ whole.err = "none"
           /\ whole.index = calls[2].ret.index
           /\ ComposesTo(calls[1].ret.val, calls[2].ret.val, whole.val, calls[1].arg)

(***************************************************************************)
(* Claims about the LZW decoder                                            *)
(***************************************************************************)
LzwEnded == format = "lzw" /\ pc \in {"done", "failed"}

\* some bit of buf at or after the bit position cursor is 1
AnyBitSetFrom(buf, cursor) ==
    \E k \in cursor .. Len(buf) * 8 - 1 : (ByteAt(buf, k \div 8) \div Pow2(k % 8)) % 2 = 1

WalkEnd(chunk) ==
    parseChunkDefinition(buffer, chunk.rawData.start, CHUNK_DEFINITIONS(chunk.name),
                         chunk.rawData.end).index

\* C13: PngParser.parse returns no chunk of a name in the schema table whose
\* schema walk went beyond the chunk's end (start of data + length): a walk
\* that needs bytes of the CRC or of the following chunks makes parse fail.
C13_PngWalkStaysInChunk ==
    PngDone =>
        \A i \in DOMAIN result.chunks :
            result.chunks[i].parsedData.defined
            => WalkEnd(result.chunks[i]) <= result.chunks[i].rawData.end

(***************************************************************************)
(* Claims about the ICC tag table                                          *)
(***************************************************************************)
IccTagHeader(j) == 132 + 12 * j

\* the signature of tag j is one of desc, cprt, dmdd, vued, wtpt
IccKnownTag(j) ==
    /\ IccTagHeader(j) + 12 <= Len(buffer)
    /\ SubSeq(buffer, IccTagHeader(j) + 1, IccTagHeader(j) + 4)
          \in {<<100, 101, 115, 99>>, <<99, 112, 114, 116>>, <<100, 109, 100, 100>>,
               <<118, 117, 101, 100>>, <<119, 116, 112, 116>>}

IccTagOffset(j) == IndexOf(viewUint32(buffer, IccTagHeader(j) + 4).val)

\* C15: a tag of a known signature whose data would be read outside the buffer
\* makes the ICC parse fail with InvalidIcc('tag offset out of bounds') and
\* with no other error.  So (a) with the profile header and every declared tag
\* header inside the buffer, the parse never fails with the RangeError of a
\* read outside the buffer, and (b) no known tag whose 4-byte type at its
\* offset extends past the end of the buffer is passed over without failure.
C15_IccTagOutOfBounds ==
    format = "icc" =>
        /\ (/\ pc = "failed"
            /\ Len(buffer) >= 132
            /\ IccTagHeader(IndexOf(viewUint32(buffer, 128).val)) <= Len(buffer))
           => err # "RangeError"
        /\ pc \in {"tags", "done"}
           => \A j \in 0 .. result.i - 1 :
                 IccKnownTag(j) => IccTagOffset(j) + 4 <= Len(buffer)

\* C14 as stated: decode with min_code_size 2 on the image data 04 01 06 00,
\* of a GIF with a global color table, returns [0, 1, 2, 3].
C14_WorkedExampleAsStated ==
    (/\ LzwEnded
     /\ result.minCodeSize = 2 /\ result.globalColorTable
     /\ buffer = <<4, 1, 6, 0>>)
    => pc = "done" /\ result.indexStream = <<0, 1, 2, 3>>

\* C14, amended: the codes clear(4), 0, 1, 2, 3, end(5) at min_code_size 2 are
\* the bytes 44 34 05 (three codes of 3 bits, then codes of 4 bits), and decode
\* returns [0, 1, 2, 3] for them, ending on the end code 5; on the bytes
\* 04 01 06 00 decode reads clear(4), 0, clear(4), 0, 0, clear(4), 1, 0, 0, 0
\* and throws 'bit parser out of bounds'.
C14_WorkedExample ==
    /\ EncodeLzw(<<4, 0, 1, 2, 3, 5>>, 2) = <<68, 52, 5>>
    /\ (LzwEnded /\ result.minCodeSize = 2 /\ result.globalColorTable)
       => /\ buffer = <<68, 52, 5>>
             => /\ pc = "done"
                /\ result.indexStream = <<0, 1, 2, 3>>
                /\ result.clearCode = 4 /\ result.code = 5
          /\ buffer = <<4, 1, 6, 0>>
             => pc = "failed" /\ err = "bit parser out of bounds"

C14_Witness ==
    /\ LzwEnded /\ pc = "done"
    /\ result.minCodeSize = 2 /\ result.globalColorTable
    /\ buffer = <<68, 52, 5>>

\* C16: in decode the clear code is 1 << min_code_size and the end code is the
\* clear code + 1, whatever the stream: once the first code has been read, the
\* values decode uses as clear and end codes are these two.
C16_ClearCodeFromMinCodeSize ==
    (format = "lzw" /\ pc \in {"loop", "done"} /\ result.code # -1)
    => /\ result.clearCode = Pow2(result.minCodeSize)
       /\ result.endCode = result.clearCode + 1

\* the reference decoder on the codes from codes[i] on: table[C] for a code
\* below the table length, table[prev] and its first index for the code equal
\* to it, the singletons anew on a clear, the end on the end code.  ok says
\* that the stream is well formed: it ends with its only end code and every
\* other code has an entry to emit.
RECURSIVE LzwReference(_, _, _, _, _, _)
LzwReference(codes, i, minCodeSize, table, prev, out) ==
    IF i > Len(codes) THEN [ok |-> FALSE, out |-> out]
    ELSE IF codes[i] = Pow2(minCodeSize) + 1 THEN [ok |-> i = Len(codes), out |-> out]
    ELSE IF codes[i] = Pow2(minCodeSize)
    THEN LzwReference(codes, i + 1, minCodeSize,
                      [k \in 1 .. Pow2(minCodeSize) + 2 |-> <<k - 1>>], -1, out)
    ELSE IF prev = -1
    THEN IF codes[i] < Len(table)
         THEN LzwReference(codes, i + 1, minCodeSize, table, codes[i],
                           out \o table[codes[i] + 1])
         ELSE [ok |-> FALSE, out |-> out]
    ELSE IF codes[i] < Len(table)
    THEN LzwReference(codes, i + 1, minCodeSize,
                      Append(table, Append(table[prev + 1], table[codes[i] + 1][1])),
                      codes[i], out \o table[codes[i] + 1])
    ELSE IF codes[i] = Len(table)
    THEN LzwReference(codes, i + 1, minCodeSize,
                      Append(table, Append(table[prev + 1], table[prev + 1][1])),
                      codes[i], out \o Append(table[prev + 1], table[prev + 1][1]))
    ELSE [ok |-> FALSE, out |-> out]

\* a well-formed stream with zero padding was decoded, or decode threw
LzwWellFormedEnded ==
    /\ LzwEnded
    /\ logical.known /\ result.globalColorTable
    /\ logical.codes[1] = Pow2(result.minCodeSize)
    /\ LzwReference(logical.codes, 1, result.minCodeSize, <<>>, -1, <<>>).ok
    /\ \A k \in DOMAIN buffer :
          k > Len(EncodeLzw(logical.codes, result.minCodeSize)) => buffer[k] = 0

\* C17: for every well-formed code stream with zero padding, decode returns
\* the index stream of the reference decoder.
C17_DecodeMatchesReference ==
    LzwWellFormedEnded
    => /\ pc = "done"
       /\ result.indexStream =
             LzwReference(logical.codes, 1, result.minCodeSize, <<>>, -1, <<>>).out

\* C18: every value of the index stream decode returns is a color-table index,
\* in 0 .. (1 << min_code_size) - 1; the clear and end codes are never among
\* them.
C18_OutputsAreColorIndices ==
    (format = "lzw" /\ pc = "done")
    => \A k \in DOMAIN result.indexStream :
          result.indexStream[k] \in 0 .. Pow2(result.minCodeSize) - 1

\* no clear code of the stream is followed by a clear or an end code
DataFollowsEachClear ==
    \A k \in 1 .. Len(logical.codes) - 1 :
        logical.codes[k] = Pow2(result.minCodeSize)
        => logical.codes[k + 1] < Pow2(result.minCodeSize)

\* on the well-formed streams in which a data code follows each clear code,
\* decode and the reference decoder agree
DecodeMatchesReferenceAfterData ==
    (LzwWellFormedEnded /\ DataFollowsEachClear)
    => /\ pc = "done"
       /\ result.indexStream =
             LzwReference(logical.codes, 1, result.minCodeSize, <<>>, -1, <<>>).out

(***************************************************************************)
(* Claims about the inline values of EXIF fields                           *)
(***************************************************************************)
\* the readFieldValue calls on a field of one of these types and counts
InlineCalls(types, counts) ==
    {i \in 1 .. Len(calls) :
        /\ calls[i].op = "readFieldValue"
        /\ calls[i].arg.type \in types
        /\ calls[i].arg.count.hi = 0 /\ calls[i].arg.count.lo \in counts}

\* C19: an inline BYTE/ASCII/UNDEFINED field of count c in 1..4 decodes to the
\* first c bytes of value_or_offset from the most significant byte down, each
\* in 0..255, and an inline SHORT to its top 16 bits and then its bottom 16
\* bits, each in 0..65535, also when the top bit of value_or_offset is set.
C19_InlineBytesAndShortsUnsigned ==
    /\ \A i \in InlineCalls({1, 2, 7}, 1 .. 4) :
          LET v == calls[i].arg.valueOffset
              bytes == <<v.hi \div 256, v.hi % 256, v.lo \div 256, v.lo % 256>>
          IN  /\ calls[i].ret.err = "none"
              /\ calls[i].ret.val.value.items =
                    [k \in 1 .. calls[i].arg.count.lo |-> Num(0, bytes[k])]
    /\ \A i \in InlineCalls({3}, 1 .. 2) :
          LET v == calls[i].arg.valueOffset
              halves == <<v.hi, v.lo>>
          IN  /\ calls[i].ret.err = "none"
              /\ calls[i].ret.val.value.items =
                    [k \in 1 .. calls[i].arg.count.lo |-> Num(0, halves[k])]

\* C20: an inline SLONG (type 9, count 1) decodes to value_or_offset read as a
\* signed two's-complement number, v - 2^32 when v >= 2^31; an inline LONG
\* (type 4, count 1) decodes to the unsigned v.
C20_InlineSlongSigned ==
    /\ \A i \in InlineCalls({9}, {1}) :
          LET v == calls[i].arg.valueOffset
          IN  /\ calls[i].ret.err = "none"
              /\ calls[i].ret.val.value.items =
                    <<Num(IF v.hi >= 32768 THEN v.hi - 65536 ELSE v.hi, v.lo)>>
    /\ \A i \in InlineCalls({4}, {1}) :
          /\ calls[i].ret.err = "none"
          /\ calls[i].ret.val.value.items = <<calls[i].arg.valueOffset>>

(***************************************************************************)
(* Claims about BitParser.atEnd                                            *)
(***************************************************************************)

\* C29: BitParser.atEnd() is a pure query: it leaves the bit cursor where it
\* was, and two consecutive calls with no read in between return the same
\* answer.
C29_AtEndIsPure ==
    format = "bits" =>
        /\ \A i \in 1 .. Len(calls) :
              calls[i].op = "atEnd" => calls[i].ret.index = calls[i].before
        /\ (/\ Len(calls) = 2
            /\ calls[1].op = "atEnd" /\ calls[2].op = "atEnd")
           => calls[1].ret.val = calls[2].ret.val

(***************************************************************************)
(* Claims about the termination of decode                                  *)
(***************************************************************************)

\* C28: decode terminates on every input: it reaches its return or a throw,
\* and each step that goes on to the code loop has moved the bit cursor
\* forward by at least one bit and by at most 12 bits for each code it read
\* (two codes after a clear code, one otherwise).
C28_DecodeTerminates ==
    /\ <>(LzwEnded)
    /\ [][(format = "lzw" /\ pc' = "loop")
          => /\ index' - index >= 1
             /\ index' - index <=
                   (IF pc = "loop" /\ result.code = result.clearCode THEN 2 ELSE 1)
                   * MAX_LWZ_CODE_WIDTH]_vars

\* a decode with a width above 12 that read three codes and returned
C28_Witness ==
    /\ LzwEnded /\ pc = "done"
    /\ result.minCodeSize = 12 /\ index >= 36

(***************************************************************************)
(* Claims about the out-of-line values of EXIF fields                      *)
(***************************************************************************)

\* C21: for a field with count * type_width(type) > 4 that decodes, the value
\* readFieldValue returns has exactly count elements, element k being the one
\* read at value_or_offset + (k - 1) * type_width(type), and the cursor index
\* after the call is the index before it.
C21_OutOfLineReadRestoresIndex ==
    \A i \in 1 .. Len(calls) :
        (/\ calls[i].op = "readFieldValue"
         /\ fieldTypeSize(calls[i].arg.type) # 0
         /\ ~fieldSizeAtMost4(calls[i].arg)
         /\ calls[i].ret.err = "none") =>
            LET field == calls[i].arg
                items == calls[i].ret.val.value.items
            IN  /\ Len(items) = IndexOf(field.count)
                /\ \A k \in 1 .. Len(items) :
                      items[k] =
                         readElement(buffer,
                                     IndexOf(field.valueOffset)
                                        + (k - 1) * fieldTypeSize(field.type),
                                     littleEndian, field.type).val
                /\ calls[i].ret.index = calls[i].before

\* three shorts were read at offset 2 with the cursor at the end of the buffer
C21_Witness ==
    /\ format = "exifField" /\ pc = "done" /\ Len(calls) = 1
    /\ calls[1].arg.type = 3 /\ calls[1].arg.count = Num(0, 3)
    /\ calls[1].arg.valueOffset = Num(0, 2)
    /\ calls[1].before = Len(buffer) /\ Len(buffer) > 0
    /\ Len(calls[1].ret.val.value.items) = 3

\* C30: the value readFieldValue decodes has as many elements as the field's
\* count: a scalar when the count is 1 and the value is inline, otherwise a
\* sequence of exactly count elements, none for a count of 0.
C30_ElementCountIsFieldCount ==
    \A i \in 1 .. Len(calls) :
        (calls[i].op = "readFieldValue" /\ calls[i].ret.err = "none") =>
            LET field == calls[i].arg
                value == calls[i].ret.val.value
            IN  /\ Len(value.items) = IndexOf(field.count)
                /\ value.scalar <=> (field.count = Num(0, 1) /\ fieldSizeAtMost4(field))

(***************************************************************************)
(* Claims about the IFDs ExifParser.parse follows                          *)
(***************************************************************************)
TagsOf(fields) == [i \in 1 .. Len(fields) |-> fields[i].tag]

\* the tags of a content in file order: the root IFD with its pointers, the
\* EXIF sub-IFD if the root points to one, the GPS sub-IFD if it points to one
ExpectedTags(c) ==
    TagsOf(c.root)
    \o (IF c.hasExif THEN <<EXIF_TAG>> ELSE <<>>)
    \o (IF c.hasGps THEN <<GPS_TAG>> ELSE <<>>)
    \o (IF c.hasExif THEN TagsOf(c.exif) ELSE <<>>)
    \o (IF c.hasGps THEN TagsOf(c.gps) ELSE <<>>)

\* C22: ExifParser.parse returns the root IFD's fields, then those of the EXIF
\* sub-IFD if the root IFD has tag 34665, then those of the GPS sub-IFD if the
\* root IFD has tag 34853; a tag 34853 that occurs only inside the EXIF
\* sub-IFD is not followed.  (Stated for the big-endian layout of a content.)
C22_ExifPointersFromRootOnly ==
    (format = "exif" /\ pc = "done" /\ logical.known /\ ~logical.le)
    => TagsOf(result.fields) = ExpectedTags(logical.content)

(***************************************************************************)
(* Claims about GIF sub-blocks and image descriptors                       *)
(***************************************************************************)

\* C23: parseSubBlocks at a stream L1, d1, ..., Lk, dk, 0 with every Li >= 1
\* returns d1 ++ ... ++ dk and leaves the cursor one byte past the terminating
\* zero, sum(Li + 1) + 1 bytes on; when the buffer ends before a zero-length
\* block it fails.
C23_SubBlocksConcatenated ==
    \A i \in 1 .. Len(calls) :
        calls[i].op = "parseSubBlocks" =>
            IF logical.terminated
            THEN /\ calls[i].ret.err = "none"
                 /\ calls[i].ret.val = Concat(logical.blocks)
                 /\ calls[i].ret.index =
                       calls[i].before + Len(Concat(logical.blocks)) + Len(logical.blocks) + 1
            ELSE calls[i].ret.err # "none"

\* three blocks, zero bytes among their data, bytes before and after the stream
C23_Witness ==
    /\ format = "subBlocks" /\ pc = "done"
    /\ logical.blocks = <<<<0, 9, 0>>, <<7>>, <<1, 0>>>>
    /\ calls[1].before = 1 /\ calls[1].ret.index = Len(buffer) - 1

(* ------------------------------------------------------------------ *)
(* C24: in every successful GifParser.parse, each image's descriptor    *)
(* span is 10 bytes long and the byte at its start is the image         *)
(* separator 0x2C.                                                      *)
(* ------------------------------------------------------------------ *)
C24_DescriptorStartsWithSeparator ==
    GifDone =>
        \A i \in 1 .. Len(result.images) :
            LET descriptor == result.images[i].descriptor
            IN  /\ descriptor.span.end - descriptor.span.start = 10
                /\ ByteAt(buffer, descriptor.span.start) = 44
                /\ descriptor.magic = 44

(* ------------------------------------------------------------------ *)
(* C25: BmpParser returns the DIB header's width, height,               *)
(* x_pixels_per_m and y_pixels_per_m as the signed 32-bit little-endian *)
(* values of their 4 bytes: a stored height with the top bit set is a   *)
(* negative number.                                                     *)
(* ------------------------------------------------------------------ *)
BmpDibParsed == format = "bmp" /\ pc \in {"pixels", "done"}

C25_DibDimensionsSigned ==
    BmpDibParsed =>
        LET start == result.dib.span.start
        IN  /\ result.dib.width = getInt32(buffer, start + 4, TRUE)
            /\ result.dib.height = getInt32(buffer, start + 8, TRUE)
            /\ result.dib.x_pixels_per_m = getInt32(buffer, start + 24, TRUE)
            /\ result.dib.y_pixels_per_m = getInt32(buffer, start + 28, TRUE)

(* ------------------------------------------------------------------ *)
(* C26: in a successful BmpParser.parse, color_table is present iff     *)
(* bits_per_pixel is 4 or 8; when present its span is the              *)
(* colors_used * 4 bytes right after the DIB header and entry i is      *)
(* (r, g, b, a) = bytes 4i+2, 4i+1, 4i, 4i+3 of that span; the DIB      *)
(* header is the V5 header iff the leading size is 124 and the info     *)
(* header for every other size.                                         *)
(* ------------------------------------------------------------------ *)
BmpDone == format = "bmp" /\ pc = "done"

DibIsV5(dib) == "red_mask" \in DOMAIN dib

C26_BmpColorTableAndDibKind ==
    BmpDone =>
        LET dib == result.dib
            table == result.color_table
            size == getUint32(buffer, dib.span.start, TRUE)
        IN  /\ ~table.isNull <=> dib.bits_per_pixel \in {4, 8}
            /\ ~table.isNull =>
                  /\ dib.colors_used.hi = 0
                  /\ table.span = Span(dib.span.end, dib.span.end + dib.colors_used.lo * 4)
                  /\ Len(table.colors) = dib.colors_used.lo
                  /\ \A i \in 0 .. Len(table.colors) - 1 :
                        table.colors[i + 1] =
                            <<ByteAt(buffer, table.span.start + 4 * i + 2),
                              ByteAt(buffer, table.span.start + 4 * i + 1),
                              ByteAt(buffer, table.span.start + 4 * i),
                              ByteAt(buffer, table.span.start + 4 * i + 3)>>
            /\ dib.info_header_size = size
            /\ DibIsV5(dib) <=> size = Num(0, 124)
            /\ dib.span.end - dib.span.start = IF size = Num(0, 124) THEN 124 ELSE 40

\* a palette entry stored as 10 20 30 00 has been read behind a header of
\* size 108, which is parsed as the info header
C26_Witness ==
    BmpDone /\ ~result.color_table.isNull /\ Len(result.color_table.colors) = 1
            /\ result.color_table.colors[1] = <<30, 20, 10, 0>>
            /\ result.dib.info_header_size = Num(0, 108)

(* ------------------------------------------------------------------ *)
(* C27: readCentralDirectoryFileHeaders returns, in input order, the    *)
(* maximal run of consecutive central directory file headers starting   *)
(* at cd_offset, each taking 46 bytes plus its name, extra field and    *)
(* comment, and the walk stops at the first position where the bytes    *)
(* are not the signature 50 4B 01 02 or fewer than 4 bytes remain.      *)
(* ------------------------------------------------------------------ *)
ZipDone == format = "zip" /\ pc = "done"

FileSignatureAt(buf, p) ==
    InBounds(buf, p, 4) /\ SubSeq(buf, p + 1, p + 4) = CENTRAL_DIRECTORY_FILE_SIGNATURE

\* where the header at p ends, by its three length fields
HeaderEndOf(buf, p) ==
    p + 46 + getUint16(buf, p + 28, TRUE) + getUint16(buf, p + 30, TRUE)
      + getUint16(buf, p + 32, TRUE)

HeaderAt(buf, p) ==
    FileSignatureAt(buf, p) /\ InBounds(buf, p, 46) /\ HeaderEndOf(buf, p) <= Len(buf)

\* the start offsets of the consecutive headers from p on
RECURSIVE HeaderRun(_, _)
HeaderRun(buf, p) ==
    IF HeaderAt(buf, p) THEN <<p>> \o HeaderRun(buf, HeaderEndOf(buf, p)) ELSE <<>>

\* the returned headers are the run, in order, each with its own bytes
ZipHeadersAreTheRun ==
    ZipDone =>
        LET run == HeaderRun(buffer, IndexOf(result.end.central_dir_offset))
        IN  /\ Len(result.fileHeaders) = Len(run)
            /\ \A i \in 1 .. Len(run) :
                  LET header == result.fileHeaders[i]
                  IN  /\ header.os = ByteAt(buffer, run[i] + 4)
                      /\ header.metadata.name.start = run[i] + 46
                      /\ header.metadata.name.end = header.metadata.extra_field.start
                      /\ header.metadata.extra_field.end = header.comment.start
                      /\ header.comment.end = HeaderEndOf(buffer, run[i])
            /\ index = IF run = <<>> THEN IndexOf(result.end.central_dir_offset)
                       ELSE HeaderEndOf(buffer, run[Len(run)])

C27_ZipWalkStopsAtMismatch ==
    /\ ZipHeadersAreTheRun
    /\ ZipDone => ~FileSignatureAt(buffer, index)

====
